---------------------------- MODULE Spec2Model ----------------------------
(***************************************************************************)
(* A model of auto_ci.py: the repository scanner (RepoScanner), the data   *)
(* classes it returns (DetectedTechnology, RepoAnalysis) and the calls     *)
(* made on them.                                                           *)
(*                                                                         *)
(* Conventions.                                                            *)
(*  - A confidence is kept in tenths: 0.3 is 3, the clamp 1.0 is 10.  The  *)
(*    source adds binary floating point numbers; the model adds the exact  *)
(*    decimal values.                                                      *)
(*  - The filesystem is a function from the paths of a bounded universe    *)
(*    to what is stored there.  A path is a sequence of names below the    *)
(*    directory "/repo"; <<>> is "/repo" itself.                           *)
(*  - The order in which a directory lists its entries belongs to the      *)
(*    filesystem; the model fixes it (ScandirOrder).                       *)
(***************************************************************************)
EXTENDS Integers, Sequences, FiniteSets, TLC

VARIABLES
    fs,               \* the filesystem: path -> Absent or [kind, text, mode]
    detection_rules,  \* the categories RepoScanner.detection_rules holds, per scanner
    last,             \* the last call made since the filesystem changed, and its outcome
    ref               \* the first scan made since the filesystem changed, and its outcome

vars == <<fs, detection_rules, last, ref>>

-----------------------------------------------------------------------------
(* Bounds of the model *)

\* the largest number of entries the filesystem holds under Spec, SpecRescan
\* and SpecData
MaxEntries == 3

\* the largest number of entries the filesystem holds under SpecGrow
MaxGrowEntries == 4

\* the largest number of pipeline files the filesystem holds under SpecSave
MaxSaved == 2

\* the largest number of entries the filesystem holds under SpecCounts
MaxCountEntries == 6

-----------------------------------------------------------------------------
(* Scoring constants of the detectors, in tenths *)

CLAMP == 10
LANG_FILE_INC == 3
LANG_FILE_CAP == 5
LANG_PATTERN_INC == 2
FW_CONTENT_INC == 8
FW_FILE_INC == 5
FW_FILE_CAP == 3
FW_FALLBACK_INC == 3
TEST_FILE_INC == 6
TEST_FILE_CAP == 3
TEST_PATTERN_INC == 4
TEST_CONTENT_INC == 3
BUILD_FILE_INC == 8
BUILD_FILE_CAP == 3
K8S_CONTENT_INC == 7
CONTAINER_FILE_INC == 8
CONTAINER_FILE_CAP == 3
INFRA_CONTENT_INC == 8
INFRA_FILE_INC == 7
INFRA_FILE_CAP == 3
PM_FILE_INC == 8
PM_FILE_CAP == 3

-----------------------------------------------------------------------------
(* Sequences and strings *)

Range(s) == {s[i] : i \in DOMAIN s}

Min(a, b) == IF a <= b THEN a ELSE b

\* s[:n]
Take(s, n) == SubSeq(s, 1, Min(n, Len(s)))

\* Body applied to a value that is computed once
Bind(value, Body(_)) == CHOOSE result \in {Body(x) : x \in {value}} : TRUE

\* Op applied from the left; every intermediate value is computed once
RECURSIVE FoldLeft(_, _, _)
FoldLeft(Op(_, _), acc, s) ==
    IF s = <<>> THEN acc
    ELSE CHOOSE result \in
             {FoldLeft(Op, step[1], step[2]) :
                  step \in {<<x, rest>> : x \in {Op(acc, Head(s))}, rest \in {Tail(s)}}} : TRUE

StartsWith(s, prefix) ==
    /\ Len(s) >= Len(prefix)
    /\ SubSeq(s, 1, Len(prefix)) = prefix

EndsWith(s, suffix) ==
    /\ Len(s) >= Len(suffix)
    /\ SubSeq(s, Len(s) - Len(suffix) + 1, Len(s)) = suffix

\* the positions of s at which the literal lit starts
Occurrences(s, lit) ==
    {i \in 1..(Len(s) - Len(lit) + 1) : SubSeq(s, i, i + Len(lit) - 1) = lit}

\* "/".join(parts)
RECURSIVE Join(_)
Join(parts) ==
    IF parts = <<>> THEN ""
    ELSE IF Len(parts) = 1 THEN parts[1]
    ELSE parts[1] \o "/" \o Join(Tail(parts))

-----------------------------------------------------------------------------
(* Patterns of the rule catalog *)

\* A filename regex of the catalog has one of two shapes: a literal anchored at
\* the end of the name (\.py$), or a literal, anything, and a literal anchored
\* at the end (requirements.*\.txt$).
NameRegex(mid, suf) == [mid |-> mid, suf |-> suf]

\* A content regex of the catalog matches a literal, or one of a few literals
\* (gem ["\']rails["\']).
ContentRegex(alts) == [alts |-> alts]

\* re.search(pattern, name) for a filename regex
re_search_name(pattern, name) ==
    /\ EndsWith(name, pattern.suf)
    /\ \/ pattern.mid = ""
       \/ \E i \in Occurrences(name, pattern.mid) :
              i + Len(pattern.mid) - 1 <= Len(name) - Len(pattern.suf)

\* re.search(pattern, content) for a content regex
re_search_content(pattern, content) ==
    \E lit \in pattern.alts : Occurrences(content, lit) # {}

\* Whether the glob of a file trigger selects an entry of that name: "*.py"
\* selects the names ending in ".py", "spec/" the directories named "spec",
\* any other trigger the entries of exactly that name, directories included.
glob_match(file_pattern, name, kind) ==
    IF SubSeq(file_pattern, 1, 1) = "*"
    THEN EndsWith(name, SubSeq(file_pattern, 2, Len(file_pattern)))
    ELSE IF EndsWith(file_pattern, "/")
    THEN kind = "dir" /\ name = SubSeq(file_pattern, 1, Len(file_pattern) - 1)
    ELSE name = file_pattern

Rule(name, files, patterns, has_content, content_patterns, language) ==
    [name |-> name, files |-> files, patterns |-> patterns,
     has_content |-> has_content, content_patterns |-> content_patterns,
     language |-> language]

\* a rule with "files" only
FileRule(name, files, language) == Rule(name, files, <<>>, FALSE, <<>>, language)

\* a rule with "content_patterns"
ContentRule(name, files, literal, language) ==
    Rule(name, files, <<>>, TRUE, <<ContentRegex({literal})>>, language)

LanguageRules ==
    << Rule("python",
            <<"*.py", "requirements.txt", "setup.py", "pyproject.toml", "Pipfile">>,
            <<NameRegex("", ".py"), NameRegex("requirements", ".txt"),
              NameRegex("", "setup.py")>>, FALSE, <<>>, ""),
       Rule("javascript",
            <<"package.json", "*.js", "*.ts", "yarn.lock", "package-lock.json">>,
            <<NameRegex("", "package.json"), NameRegex("", ".js"),
              NameRegex("", ".ts")>>, FALSE, <<>>, ""),
       Rule("go", <<"go.mod", "go.sum", "*.go">>,
            <<NameRegex("", "go.mod"), NameRegex("", ".go")>>, FALSE, <<>>, ""),
       Rule("java", <<"pom.xml", "build.gradle", "*.java", "gradlew">>,
            <<NameRegex("", "pom.xml"), NameRegex("", "build.gradle"),
              NameRegex("", ".java")>>, FALSE, <<>>, ""),
       Rule("rust", <<"Cargo.toml", "Cargo.lock", "*.rs">>,
            <<NameRegex("", "Cargo.toml"), NameRegex("", ".rs")>>, FALSE, <<>>, ""),
       Rule("php", <<"composer.json", "composer.lock", "*.php">>,
            <<NameRegex("", "composer.json"), NameRegex("", ".php")>>, FALSE, <<>>, ""),
       Rule("ruby", <<"Gemfile", "Gemfile.lock", "*.rb", "*.gemspec">>,
            <<NameRegex("", "Gemfile"), NameRegex("", ".rb")>>, FALSE, <<>>, ""),
       Rule("csharp", <<"*.csproj", "*.sln", "*.cs", "packages.config">>,
            <<NameRegex("", ".csproj"), NameRegex("", ".cs"),
              NameRegex("", ".sln")>>, FALSE, <<>>, "") >>

FrameworkRules ==
    << FileRule("django", <<"manage.py", "settings.py">>, "python"),
       ContentRule("flask", <<"app.py">>, "from flask import", "python"),
       ContentRule("fastapi", <<>>, "from fastapi import", "python"),
       ContentRule("react", <<"package.json">>, "\"react\"", "javascript"),
       ContentRule("vue", <<"package.json">>, "\"vue\"", "javascript"),
       FileRule("angular", <<"angular.json", "package.json">>, "javascript"),
       ContentRule("express", <<"package.json">>, "\"express\"", "javascript"),
       ContentRule("spring", <<"pom.xml">>, "spring-boot", "java"),
       ContentRule("gin", <<>>, "\"github.com/gin-gonic/gin\"", "go"),
       FileRule("laravel", <<"artisan", "composer.json">>, "php"),
       Rule("rails", <<"Gemfile">>, <<>>, TRUE,
            <<ContentRegex({"gem \"rails\"", "gem 'rails'",
                            "gem \"rails'", "gem 'rails\""})>>, "ruby") >>

TestToolRules ==
    << ContentRule("pytest", <<"pytest.ini", "pyproject.toml">>, "pytest", "python"),
       ContentRule("unittest", <<>>, "import unittest", "python"),
       ContentRule("jest", <<"jest.config.js", "package.json">>, "\"jest\"", "javascript"),
       ContentRule("mocha", <<"package.json">>, "\"mocha\"", "javascript"),
       ContentRule("junit", <<"pom.xml">>, "junit", "java"),
       Rule("go test", <<>>, <<NameRegex("", "_test.go")>>, FALSE, <<>>, "go"),
       FileRule("phpunit", <<"phpunit.xml", "composer.json">>, "php"),
       FileRule("rspec", <<".rspec", "spec/">>, "ruby") >>

BuildToolRules ==
    << FileRule("webpack", <<"webpack.config.js", "package.json">>, "javascript"),
       FileRule("gulp", <<"gulpfile.js">>, "javascript"),
       FileRule("grunt", <<"Gruntfile.js">>, "javascript"),
       FileRule("maven", <<"pom.xml">>, "java"),
       FileRule("gradle", <<"build.gradle", "gradlew">>, "java"),
       FileRule("make", <<"Makefile", "makefile">>, ""),
       FileRule("cmake", <<"CMakeLists.txt">>, ""),
       FileRule("setuptools", <<"setup.py">>, "python"),
       FileRule("poetry", <<"pyproject.toml">>, "python") >>

ContainerRules ==
    << FileRule("docker", <<"Dockerfile", "docker-compose.yml", ".dockerignore">>, ""),
       FileRule("podman", <<"Containerfile">>, ""),
       Rule("kubernetes", <<"*.yaml", "*.yml">>, <<>>, TRUE,
            <<ContentRegex({"apiVersion:"}), ContentRegex({"kind:"})>>, "") >>

InfrastructureRules ==
    << FileRule("terraform", <<"*.tf", "terraform.tfvars">>, ""),
       Rule("ansible", <<"*.yml", "ansible.cfg">>, <<>>, TRUE,
            <<ContentRegex({"hosts:"}), ContentRegex({"tasks:"})>>, ""),
       FileRule("helm", <<"Chart.yaml", "values.yaml">>, ""),
       ContentRule("cloudformation", <<"*.json", "*.yaml">>,
                   "AWSTemplateFormatVersion", "") >>

\* the dictionary RepoScanner._load_detection_rules returns
load_detection_rules ==
    [languages |-> LanguageRules, frameworks |-> FrameworkRules,
     test_tools |-> TestToolRules, build_tools |-> BuildToolRules,
     containers |-> ContainerRules, infrastructure |-> InfrastructureRules]

\* the table pm_files of _detect_package_managers
pm_files ==
    << FileRule("npm", <<"package-lock.json", "package.json">>, ""),
       FileRule("yarn", <<"yarn.lock">>, ""),
       FileRule("pnpm", <<"pnpm-lock.yaml">>, ""),
       FileRule("pip", <<"requirements.txt", "Pipfile">>, ""),
       FileRule("poetry", <<"poetry.lock">>, ""),
       FileRule("composer", <<"composer.lock">>, ""),
       FileRule("bundler", <<"Gemfile.lock">>, ""),
       FileRule("maven", <<"pom.xml">>, ""),
       FileRule("gradle", <<"build.gradle", "gradle.properties">>, ""),
       FileRule("go modules", <<"go.mod">>, ""),
       FileRule("cargo", <<"Cargo.lock">>, "") >>

\* the extensions whose files _detect_frameworks reads when no trigger file matched
framework_file_extensions(language) ==
    CASE language = "python" -> <<".py">>
      [] language = "javascript" -> <<".js", ".ts">>
      [] language = "java" -> <<".java">>
      [] language = "go" -> <<".go">>
      [] language = "php" -> <<".php">>
      [] language = "ruby" -> <<".rb">>
      [] OTHER -> <<>>

\* the extensions whose files _detect_test_tools reads
test_file_extensions(language) ==
    CASE language = "python" -> <<".py">>
      [] language = "javascript" -> <<".js", ".ts">>
      [] language = "java" -> <<".java">>
      [] OTHER -> <<>>

-----------------------------------------------------------------------------
(* The filesystem *)

Absent == [kind |-> "absent"]

File(text, mode) == [kind |-> "file", text |-> text, mode |-> mode]

Dir == [kind |-> "dir", text |-> "", mode |-> "ok"]

\* The paths of the model's universe, in the order in which a recursive walk
\* of /repo meets them: the entries of a directory before those of its
\* subdirectories.
ScandirOrder ==
    << <<"app.py">>, <<"a.py">>, <<"b.py">>, <<"c.py">>, <<"d.py">>, <<"setup.py">>,
       <<"gradle.properties">>, <<"main.tf">>, <<"a.tf">>, <<"b.tf">>, <<"c.tf">>,
       <<"Dockerfile">>, <<"Chart.yaml">>, <<"a.yaml">>, <<"b.yaml">>, <<"c.yaml">>,
       <<"docker-compose.yml">>, <<".dockerignore">>, <<"main_test.go">>,
       <<"x_test.go">>, <<"pytest.ini">>, <<"Jenkinsfile">>, <<"azure-pipelines.yml">>,
       <<"README.md">>, <<".gitignore">>, <<"LICENSE">>,
       <<"pkg">>, <<".github">>, <<".gitlab-ci.yml">>, <<".circleci">>,
       <<"pkg", "main.go">>, <<"pkg", "main_test.go">>, <<"pkg", "Dockerfile">>,
       <<"pkg", "pytest.ini">>, <<"pkg", "app.py">>,
       <<"pkg", ".github">>, <<"pkg", ".gitlab-ci.yml">>, <<"pkg", ".circleci">>,
       <<"pkg", ".github", "workflows">>, <<"pkg", ".github", "workflows", "ci.yml">>,
       <<"pkg", ".circleci", "config.yml">>,
       <<".github", "workflows">>, <<".github", "workflows", "ci.yml">>,
       <<".circleci", "config.yml">> >>

AllPaths == Range(ScandirOrder)

\* the places of the pipeline files and the directories that lead to them
PipelinePaths ==
    {p \in AllPaths :
        p[Len(p)] \in {".github", "workflows", "ci.yml", ".gitlab-ci.yml", ".circleci",
                       "config.yml"}}

PlainText == "x = 1"
FlaskText == "from flask import Flask"
ManifestText == "AWSTemplateFormatVersion: 1 apiVersion: v1"

\* what the model may store at a path
Variants(path) ==
    CASE path = <<"app.py">> ->
            {File(PlainText, "ok"), File(FlaskText, "ok"), File(FlaskText, "denied")}
      [] path \in {<<"a.py">>, <<"b.py">>, <<"c.py">>} -> {File(FlaskText, "ok")}
      [] path \in {<<"d.py">>, <<"pkg", "app.py">>} ->
            {File(PlainText, "ok"), File(FlaskText, "ok")}
      [] path = <<"Dockerfile">> -> {File(PlainText, "ok"), Dir}
      [] path = <<"Chart.yaml">> ->
            {File(ManifestText, "ok"), File(ManifestText, "binary"), Dir}
      [] path \in {<<"a.yaml">>, <<"b.yaml">>, <<"c.yaml">>} -> {File(ManifestText, "ok")}
      [] path = <<"pkg">> -> {Dir}
      [] path[Len(path)] \in {".github", "workflows", ".circleci"} ->
            {Dir, File(PlainText, "ok")}
      [] path[Len(path)] \in {"ci.yml", ".gitlab-ci.yml", "config.yml"} ->
            {File(PlainText, "ok"), Dir}
      [] OTHER -> {File(PlainText, "ok")}

Parent(path) == SubSeq(path, 1, Len(path) - 1)

NameOf(path) == path[Len(path)]

Present(tree) == {p \in AllPaths : tree[p].kind # "absent"}

\* Path.exists
exists(tree, path) == path = <<>> \/ (path \in AllPaths /\ tree[path].kind # "absent")

\* Path.is_dir
is_dir(tree, path) == path = <<>> \/ (path \in AllPaths /\ tree[path].kind = "dir")

\* Path.is_file
is_file(tree, path) == path \in AllPaths /\ tree[path].kind = "file"

IsUnder(path, root) ==
    /\ Len(path) > Len(root)
    /\ SubSeq(path, 1, Len(root)) = root

\* Path(repo_path).resolve(): the "." components of the argument are dropped
resolve(arg) == SelectSeq(arg, LAMBDA c : c # ".")

\* str(Path.relative_to(repo_path))
relative_to(path, repo_path) == Join(SubSeq(path, Len(repo_path) + 1, Len(path)))

\* str(repo_path) of a resolved path
path_str(path) == IF path = <<>> THEN "/repo" ELSE "/repo/" \o Join(path)

RelativeAll(paths, repo_path) ==
    [i \in DOMAIN paths |-> relative_to(paths[i], repo_path)]

\* the extensions named by the detectors' file_extensions tables
Extensions == {".py", ".js", ".ts", ".java", ".go", ".php", ".rb"}

\* every glob the scanner hands to rglob
AllGlobs ==
    {"*"} \cup {"*" \o ext : ext \in Extensions}
    \cup UNION {Range(rules.files) :
                   rules \in Range(LanguageRules) \cup Range(FrameworkRules)
                             \cup Range(TestToolRules) \cup Range(BuildToolRules)
                             \cup Range(ContainerRules) \cup Range(InfrastructureRules)
                             \cup Range(pm_files)}

\* For each glob, the paths of the universe whose name it can select, in
\* walking order: glob_match tabulated once over the universe.
GlobCandidates ==
    [file_pattern \in AllGlobs |->
        SelectSeq(ScandirOrder,
                  LAMBDA p : \/ file_pattern = "*"
                             \/ \E kind \in {"file", "dir"} :
                                    glob_match(file_pattern, NameOf(p), kind))]

\* list(repo_path.rglob(file_pattern)): nothing when repo_path is no directory,
\* else the files and directories below it that the glob selects
rglob(tree, repo_path, file_pattern) ==
    IF ~is_dir(tree, repo_path) THEN <<>>
    ELSE SelectSeq(GlobCandidates[file_pattern],
                   LAMBDA p : /\ tree[p].kind # "absent"
                              /\ IsUnder(p, repo_path)
                              /\ \/ file_pattern = "*"
                                 \/ glob_match(file_pattern, NameOf(p), tree[p].kind))

\* every filename regex of the catalog
AllNameRegexes ==
    UNION {Range(rules.patterns) : rules \in Range(LanguageRules) \cup Range(TestToolRules)}

\* For each filename regex, the paths of the universe whose name it is found
\* in: re_search_name tabulated once over the universe.
NameMatches ==
    [pattern \in AllNameRegexes |->
        {p \in AllPaths : re_search_name(pattern, NameOf(p))}]

\* re.search(pattern, file_path.name)
name_matches(pattern, file_path) == file_path \in NameMatches[pattern]

\* Path.suffix
suffix(name) ==
    LET dots == {i \in 1..Len(name) : SubSeq(name, i, i) = "."}
        i == CHOOSE d \in dots : \A e \in dots : e <= d
    IN  IF dots = {} \/ i = 1 \/ i = Len(name) THEN "" ELSE SubSeq(name, i, Len(name))

\* A variant of universal_newlines: the text is handed over as stored
newlines_kept(text) == text

\* What a file opened in text mode with newline=None hands to its reader:
\* "\r\n" and a lone "\r" are read as "\n"
RECURSIVE translated(_)
translated(text) ==
    IF text = "" THEN ""
    ELSE IF StartsWith(text, "\r\n") THEN "\n" \o translated(SubSeq(text, 3, Len(text)))
    ELSE IF StartsWith(text, "\r") THEN "\n" \o translated(SubSeq(text, 2, Len(text)))
    ELSE SubSeq(text, 1, 1) \o translated(SubSeq(text, 2, Len(text)))

universal_newlines(text) ==
    IF Occurrences(text, "\r") = {} THEN text ELSE translated(text)

\* Path.read_text(encoding='utf-8'): the text, or the exception raised
read_text(tree, path) ==
    CASE tree[path].kind = "dir" -> [exc |-> "IsADirectoryError", text |-> ""]
      [] tree[path].mode = "denied" -> [exc |-> "PermissionError", text |-> ""]
      [] tree[path].mode = "binary" -> [exc |-> "UnicodeDecodeError", text |-> ""]
      [] OTHER -> [exc |-> "none", text |-> universal_newlines(tree[path].text)]

\* os.mkdir(path): the exception it raises, "none" when it makes the directory
os_mkdir(tree, path) ==
    CASE \E n \in 1..(Len(path) - 1) : is_file(tree, SubSeq(path, 1, n)) ->
            "NotADirectoryError"
      [] ~is_dir(tree, Parent(path)) -> "FileNotFoundError"
      [] exists(tree, path) -> "FileExistsError"
      [] OTHER -> "none"

\* Path.mkdir(parents=True, exist_ok=True): the tree it leaves and the
\* exception it raises
RECURSIVE mkdir(_, _)
mkdir(tree, path) ==
    LET error == os_mkdir(tree, path)
    IN  CASE error = "none" -> [tree |-> [tree EXCEPT ![path] = Dir], exc |-> "none"]
          [] error = "FileNotFoundError" ->
                LET parents == mkdir(tree, Parent(path))
                IN  IF parents.exc # "none" THEN parents
                    ELSE [tree |-> [parents.tree EXCEPT ![path] = Dir], exc |-> "none"]
          [] OTHER ->
                [tree |-> tree, exc |-> IF is_dir(tree, path) THEN "none" ELSE error]

\* Path.write_text(data, encoding='utf-8') in a directory that exists: the
\* file holds the characters of data
write_text(tree, path, data) ==
    CASE tree[path].kind = "dir" -> [tree |-> tree, exc |-> "IsADirectoryError"]
      [] tree[path].kind = "file" /\ tree[path].mode = "denied" ->
            [tree |-> tree, exc |-> "PermissionError"]
      [] OTHER -> [tree |-> [tree EXCEPT ![path] = File(data, "ok")], exc |-> "none"]

-----------------------------------------------------------------------------
(* Data classes *)

None == "None"

\* DetectedTechnology(name=..., files=..., confidence=...)
DetectedTechnology(name, files, confidence) ==
    [name |-> name, version |-> None, files |-> files, confidence |-> confidence]

\* A variant of max_by_confidence: the last entry of the list
last_entry(languages) == languages[Len(languages)]

\* max(languages, key=lambda x: x.confidence): the first entry of maximal confidence
max_by_confidence(languages) ==
    LET i == CHOOSE k \in DOMAIN languages :
                 /\ \A j \in DOMAIN languages :
                        languages[j].confidence <= languages[k].confidence
                 /\ \A j \in 1..(k - 1) :
                        languages[j].confidence < languages[k].confidence
    IN  languages[i]

\* RepoAnalysis.__post_init__
post_init(analysis) ==
    IF analysis.primary_language = None /\ analysis.languages # <<>>
    THEN [analysis EXCEPT !.primary_language = max_by_confidence(analysis.languages).name]
    ELSE analysis

\* RepoAnalysis(...): the generated __init__ followed by __post_init__
RepoAnalysis(languages, frameworks, test_tools, build_tools, containers, infrastructure, package_managers, repo_path, primary_language) ==
    post_init([languages |-> languages, frameworks |-> frameworks,
               test_tools |-> test_tools, build_tools |-> build_tools,
               containers |-> containers, infrastructure |-> infrastructure,
               package_managers |-> package_managers, repo_path |-> repo_path,
               primary_language |-> primary_language])

\* sorted(technologies, key=lambda x: x.confidence, reverse=True): a stable
\* sort, entries of equal confidence keep their order
RECURSIVE insert_sorted(_, _)
insert_sorted(sorted_list, tech) ==
    IF sorted_list = <<>> THEN <<tech>>
    ELSE IF Head(sorted_list).confidence >= tech.confidence
    THEN <<Head(sorted_list)>> \o insert_sorted(Tail(sorted_list), tech)
    ELSE <<tech>> \o sorted_list

\* A variant of sorted_by_confidence: a sort that is not stable, an entry goes
\* before the entries of equal confidence already placed
RECURSIVE insert_before_equal(_, _)
insert_before_equal(sorted_list, tech) ==
    IF sorted_list = <<>> THEN <<tech>>
    ELSE IF Head(sorted_list).confidence > tech.confidence
    THEN <<Head(sorted_list)>> \o insert_before_equal(Tail(sorted_list), tech)
    ELSE <<tech>> \o sorted_list

sorted_unstable(technologies) ==
    FoldLeft(insert_before_equal, <<>>, technologies)

sorted_by_confidence(technologies) ==
    FoldLeft(insert_sorted, <<>>, technologies)

-----------------------------------------------------------------------------
(* The detectors of RepoScanner *)

\* A variant of new_evidence: found_files is not emptied, it still holds the
\* files of the first language of the last scan
carried_evidence ==
    [confidence |-> 0,
     files |-> IF last.op = "scan" /\ last.result.outcome = "returned"
                  /\ last.result.analysis.languages # <<>>
               THEN last.result.analysis.languages[1].files
               ELSE <<>>,
     exc |-> "none"]

\* "confidence = 0.0; found_files = []" at the head of a rule's loop body.  exc
\* is the exception that left the detector, "none" while none did.
new_evidence == [confidence |-> 0, files |-> <<>>, exc |-> "none"]

\* A variant of caught: except PermissionError
caught_permission_only(exc) == exc = "PermissionError"

\* except (UnicodeDecodeError, PermissionError): continue
caught(exc) == exc \in {"UnicodeDecodeError", "PermissionError"}

\* A variant of emit: the confidence is not clamped
emit_unclamped(technologies, name, evidence) ==
    IF evidence.confidence > 0
    THEN Append(technologies, DetectedTechnology(name, evidence.files, evidence.confidence))
    ELSE technologies

\* A variant of emit: "if confidence >= 0"
emit_without_evidence(technologies, name, evidence) ==
    IF evidence.confidence >= 0
    THEN Append(technologies,
                DetectedTechnology(name, evidence.files, Min(evidence.confidence, CLAMP)))
    ELSE technologies

\* "if confidence > 0: technologies.append(DetectedTechnology(...))"
emit(technologies, name, evidence) ==
    IF evidence.confidence > 0
    THEN Append(technologies,
                DetectedTechnology(name, evidence.files, Min(evidence.confidence, CLAMP)))
    ELSE technologies

\* any pattern of the list is found in the content
any_content_match(content_patterns, content) ==
    \E i \in DOMAIN content_patterns : re_search_content(content_patterns[i], content)

\* The body of a loop over files whose text is read inside try/except: the
\* first content pattern found adds inc and records the path (only once when
\* dedupe is set); a caught exception skips the file, any other leaves the
\* detector.
content_step(tree, repo_path, content_patterns, inc, dedupe, acc, path) ==
    IF acc.exc # "none" THEN acc
    ELSE LET rel == relative_to(path, repo_path)
         IN  CHOOSE result \in
                 {IF r.exc # "none"
                  THEN IF caught(r.exc) THEN acc ELSE [acc EXCEPT !.exc = r.exc]
                  ELSE IF any_content_match(content_patterns, r.text)
                  THEN [acc EXCEPT !.confidence = @ + inc,
                                   !.files = IF dedupe /\ rel \in Range(@)
                                             THEN @ ELSE Append(@, rel)]
                  ELSE acc :
                      r \in {read_text(tree, path)}} : TRUE

\* A variant of language_trigger: the increment is added once for a trigger,
\* whatever the number of paths it selects
language_trigger_once(tree, repo_path, acc, file_pattern) ==
    LET matches == rglob(tree, repo_path, file_pattern)
    IN  IF matches # <<>>
        THEN [acc EXCEPT !.confidence = @ + LANG_FILE_INC,
                         !.files = @ \o RelativeAll(Take(matches, LANG_FILE_CAP), repo_path)]
        ELSE acc

\* One file trigger of a language rule
language_trigger(tree, repo_path, acc, file_pattern) ==
    LET matches == rglob(tree, repo_path, file_pattern)
    IN  IF matches # <<>>
        THEN [acc EXCEPT !.confidence = @ + LANG_FILE_INC * Len(matches),
                         !.files = @ \o RelativeAll(Take(matches, LANG_FILE_CAP), repo_path)]
        ELSE acc

\* One filename pattern of a language rule
language_pattern(tree, repo_path, acc, pattern) ==
    FoldLeft(LAMBDA a, file_path :
                 IF is_file(tree, file_path) /\ name_matches(pattern, file_path)
                 THEN [a EXCEPT !.confidence = @ + LANG_PATTERN_INC,
                                !.files = IF relative_to(file_path, repo_path) \in Range(@)
                                          THEN @
                                          ELSE Append(@, relative_to(file_path, repo_path))]
                 ELSE a,
             acc, rglob(tree, repo_path, "*"))

language_evidence(tree, repo_path, rules) ==
    LET triggered == FoldLeft(LAMBDA a, f : language_trigger(tree, repo_path, a, f),
                              new_evidence, rules.files)
    IN  FoldLeft(LAMBDA a, pat : language_pattern(tree, repo_path, a, pat),
                 triggered, rules.patterns)

\* One file trigger of a framework rule
framework_trigger(tree, repo_path, rules, acc, file_pattern) ==
    LET matches == rglob(tree, repo_path, file_pattern)
    IN  IF acc.exc # "none" \/ matches = <<>> THEN acc
        ELSE IF rules.has_content
        THEN FoldLeft(LAMBDA a, match :
                          content_step(tree, repo_path, rules.content_patterns,
                                       FW_CONTENT_INC, FALSE, a, match),
                      acc, matches)
        ELSE [acc EXCEPT !.confidence = @ + FW_FILE_INC,
                         !.files = @ \o RelativeAll(Take(matches, FW_FILE_CAP), repo_path)]

\* A variant of framework_fallback: the files of the language's extensions
\* are read whether or not a trigger file matched
framework_fallback_always(tree, repo_path, rules, acc) ==
    IF acc.exc = "none" /\ rules.has_content
    THEN FoldLeft(LAMBDA a, ext :
                      FoldLeft(LAMBDA b, file_path :
                                   content_step(tree, repo_path, rules.content_patterns,
                                                FW_FALLBACK_INC, FALSE, b, file_path),
                               a, rglob(tree, repo_path, "*" \o ext)),
                  acc, framework_file_extensions(rules.language))
    ELSE acc

\* "if 'content_patterns' in rules and not found_files": the files of the
\* language's extensions are read
framework_fallback(tree, repo_path, rules, acc) ==
    IF acc.exc = "none" /\ rules.has_content /\ acc.files = <<>>
    THEN FoldLeft(LAMBDA a, ext :
                      FoldLeft(LAMBDA b, file_path :
                                   content_step(tree, repo_path, rules.content_patterns,
                                                FW_FALLBACK_INC, FALSE, b, file_path),
                               a, rglob(tree, repo_path, "*" \o ext)),
                  acc, framework_file_extensions(rules.language))
    ELSE acc

framework_evidence(tree, repo_path, rules) ==
    framework_fallback(tree, repo_path, rules,
        FoldLeft(LAMBDA a, f : framework_trigger(tree, repo_path, rules, a, f),
                 new_evidence, rules.files))

\* The loop of a detector over its rules: the evidence of each rule in catalog
\* order, until an exception leaves the detector
detect_with(rule_list, Evidence(_)) ==
    Bind(FoldLeft(LAMBDA acc, rules :
                      IF acc.exc # "none" THEN acc
                      ELSE Bind(Evidence(rules),
                                LAMBDA ev :
                                    IF ev.exc # "none" THEN [acc EXCEPT !.exc = ev.exc]
                                    ELSE [acc EXCEPT !.list = emit(@, rules.name, ev)]),
                  [exc |-> "none", list |-> <<>>], rule_list),
         LAMBDA run :
             IF run.exc # "none" THEN [exc |-> run.exc, list |-> <<>>]
             ELSE [exc |-> "none", list |-> sorted_by_confidence(run.list)])

\* RepoScanner._detect_frameworks
detect_frameworks(catalog, tree, repo_path) ==
    detect_with(catalog.frameworks,
                LAMBDA rules : framework_evidence(tree, repo_path, rules))

\* RepoScanner._detect_languages
detect_languages(catalog, tree, repo_path) ==
    detect_with(catalog.languages,
                LAMBDA rules : language_evidence(tree, repo_path, rules))

\* A variant of flat_trigger: the increment is added for every match
flat_trigger_per_match(tree, repo_path, inc, cap, acc, file_pattern) ==
    LET matches == rglob(tree, repo_path, file_pattern)
    IN  IF matches # <<>>
        THEN [acc EXCEPT !.confidence = @ + inc * Len(matches),
                         !.files = @ \o RelativeAll(Take(matches, cap), repo_path)]
        ELSE acc

\* "if matches: confidence += inc; found_files.extend(matches[:cap])", the
\* trigger of a rule whose files are not read
flat_trigger(tree, repo_path, inc, cap, acc, file_pattern) ==
    LET matches == rglob(tree, repo_path, file_pattern)
    IN  IF matches # <<>>
        THEN [acc EXCEPT !.confidence = @ + inc,
                         !.files = @ \o RelativeAll(Take(matches, cap), repo_path)]
        ELSE acc

\* A variant of test_pattern: the increment is added once for a pattern,
\* whatever the number of files it names
test_pattern_once(tree, repo_path, acc, pattern) ==
    LET named == SelectSeq(rglob(tree, repo_path, "*"),
                           LAMBDA file_path : /\ is_file(tree, file_path)
                                              /\ name_matches(pattern, file_path))
    IN  IF named = <<>> THEN acc
        ELSE [acc EXCEPT !.confidence = @ + TEST_PATTERN_INC,
                         !.files = @ \o RelativeAll(named, repo_path)]

\* One filename pattern of a test tool rule
test_pattern(tree, repo_path, acc, pattern) ==
    FoldLeft(LAMBDA a, file_path :
                 IF is_file(tree, file_path) /\ name_matches(pattern, file_path)
                 THEN [a EXCEPT !.confidence = @ + TEST_PATTERN_INC,
                                !.files = Append(@, relative_to(file_path, repo_path))]
                 ELSE a,
             acc, rglob(tree, repo_path, "*"))

\* "if 'content_patterns' in rules": the files of the language's extensions are read
test_content(tree, repo_path, rules, acc) ==
    IF rules.has_content
    THEN FoldLeft(LAMBDA a, ext :
                      FoldLeft(LAMBDA b, file_path :
                                   content_step(tree, repo_path, rules.content_patterns,
                                                TEST_CONTENT_INC, TRUE, b, file_path),
                               a, rglob(tree, repo_path, "*" \o ext)),
                  acc, test_file_extensions(rules.language))
    ELSE acc

test_evidence(tree, repo_path, rules) ==
    LET triggered == FoldLeft(LAMBDA a, f :
                                  flat_trigger(tree, repo_path, TEST_FILE_INC,
                                               TEST_FILE_CAP, a, f),
                              new_evidence, rules.files)
        named == FoldLeft(LAMBDA a, pat : test_pattern(tree, repo_path, a, pat),
                          triggered, rules.patterns)
    IN  test_content(tree, repo_path, rules, named)

\* RepoScanner._detect_test_tools
detect_test_tools(catalog, tree, repo_path) ==
    detect_with(catalog.test_tools,
                LAMBDA rules : test_evidence(tree, repo_path, rules))

\* RepoScanner._detect_build_tools
detect_build_tools(catalog, tree, repo_path) ==
    detect_with(catalog.build_tools,
                LAMBDA rules :
                    FoldLeft(LAMBDA a, f :
                                 flat_trigger(tree, repo_path, BUILD_FILE_INC,
                                              BUILD_FILE_CAP, a, f),
                             new_evidence, rules.files))

\* A variant of container_trigger: the text of a manifest is not looked at
container_trigger_unchecked(tree, repo_path, rules, acc, file_pattern) ==
    flat_trigger(tree, repo_path, CONTAINER_FILE_INC, CONTAINER_FILE_CAP, acc, file_pattern)

\* One file trigger of a container rule
container_trigger(tree, repo_path, rules, acc, file_pattern) ==
    LET matches == rglob(tree, repo_path, file_pattern)
    IN  IF acc.exc # "none" \/ matches = <<>> THEN acc
        ELSE IF rules.name = "kubernetes" /\ rules.has_content
        THEN FoldLeft(LAMBDA a, match :
                          IF suffix(NameOf(match)) \in {".yaml", ".yml"}
                          THEN content_step(tree, repo_path, rules.content_patterns,
                                            K8S_CONTENT_INC, FALSE, a, match)
                          ELSE a,
                      acc, matches)
        ELSE flat_trigger(tree, repo_path, CONTAINER_FILE_INC, CONTAINER_FILE_CAP,
                          acc, file_pattern)

\* RepoScanner._detect_containers
detect_containers(catalog, tree, repo_path) ==
    detect_with(catalog.containers,
                LAMBDA rules :
                    FoldLeft(LAMBDA a, f : container_trigger(tree, repo_path, rules, a, f),
                             new_evidence, rules.files))

\* One file trigger of an infrastructure rule
infrastructure_trigger(tree, repo_path, rules, acc, file_pattern) ==
    LET matches == rglob(tree, repo_path, file_pattern)
    IN  IF acc.exc # "none" \/ matches = <<>> THEN acc
        ELSE IF rules.has_content
        THEN FoldLeft(LAMBDA a, match :
                          content_step(tree, repo_path, rules.content_patterns,
                                       INFRA_CONTENT_INC, FALSE, a, match),
                      acc, matches)
        ELSE flat_trigger(tree, repo_path, INFRA_FILE_INC, INFRA_FILE_CAP,
                          acc, file_pattern)

\* RepoScanner._detect_infrastructure
detect_infrastructure(catalog, tree, repo_path) ==
    detect_with(catalog.infrastructure,
                LAMBDA rules :
                    FoldLeft(LAMBDA a, f :
                                 infrastructure_trigger(tree, repo_path, rules, a, f),
                             new_evidence, rules.files))

\* RepoScanner._detect_package_managers
detect_package_managers(catalog, tree, repo_path) ==
    detect_with(pm_files,
                LAMBDA rules :
                    FoldLeft(LAMBDA a, f :
                                 flat_trigger(tree, repo_path, PM_FILE_INC, PM_FILE_CAP, a, f),
                             new_evidence, rules.files))

-----------------------------------------------------------------------------
(* RepoScanner.scan_repository *)

\* the detectors in the order scan_repository calls them
Categories ==
    <<"languages", "frameworks", "test_tools", "build_tools", "containers",
      "infrastructure", "package_managers">>

detect(category, catalog, tree, repo_path) ==
    CASE category = "languages" -> detect_languages(catalog, tree, repo_path)
      [] category = "frameworks" -> detect_frameworks(catalog, tree, repo_path)
      [] category = "test_tools" -> detect_test_tools(catalog, tree, repo_path)
      [] category = "build_tools" -> detect_build_tools(catalog, tree, repo_path)
      [] category = "containers" -> detect_containers(catalog, tree, repo_path)
      [] category = "infrastructure" -> detect_infrastructure(catalog, tree, repo_path)
      [] category = "package_managers" -> detect_package_managers(catalog, tree, repo_path)

\* what a call that raised hands to its caller in place of an analysis
NoAnalysis == [raised |-> TRUE]

Raised(error, invoked) ==
    [outcome |-> "raised", error |-> error, analysis |-> NoAnalysis, invoked |-> invoked]

Returned(analysis, invoked) ==
    [outcome |-> "returned", error |-> "none", analysis |-> analysis, invoked |-> invoked]

\* A variant of path_check: the check is left out
path_check_omitted(tree, repo_path) == TRUE

\* "if not repo_path.exists(): raise ValueError"
path_check(tree, repo_path) == exists(tree, repo_path)

\* "if analysis.languages: analysis.primary_language = max(...).name"
with_primary_language(analysis) ==
    IF analysis.languages # <<>>
    THEN [analysis EXCEPT !.primary_language = max_by_confidence(analysis.languages).name]
    ELSE analysis

\* RepoScanner.scan_repository: the outcome of the call, with the detectors it
\* invoked in order (invoked)
scan_repository(catalog, tree, arg) ==
    LET repo_path == resolve(arg)
        blank == RepoAnalysis(<<>>, <<>>, <<>>, <<>>, <<>>, <<>>, <<>>,
                              path_str(repo_path), None)
    IN  IF ~path_check(tree, repo_path) THEN Raised("ValueError", <<>>)
        ELSE Bind(FoldLeft(LAMBDA acc, category :
                               IF acc.exc # "none" THEN acc
                               ELSE Bind(detect(category, catalog, tree, repo_path),
                                         LAMBDA r :
                                             [analysis |->
                                                  IF r.exc = "none"
                                                  THEN [acc.analysis EXCEPT ![category] = r.list]
                                                  ELSE acc.analysis,
                                              exc |-> r.exc,
                                              invoked |-> Append(acc.invoked, category)]),
                           [analysis |-> blank, exc |-> "none", invoked |-> <<>>],
                           Categories),
                  LAMBDA run :
                      IF run.exc # "none" THEN Raised(run.exc, run.invoked)
                      ELSE Returned(with_primary_language(run.analysis), run.invoked))

-----------------------------------------------------------------------------
(* yaml.dump(document, default_flow_style=False, sort_keys=False) *)

\* The values the generators put into a document.  A dict is a sequence of
\* <<key, value>> pairs in insertion order, a list a sequence of values; a
\* number or a boolean is kept as the text yaml writes for it.
Str(s) == [t |-> "str", v |-> s]
Num(s) == [t |-> "num", v |-> s]
Bool(b) == [t |-> "bool", v |-> IF b THEN "true" ELSE "false"]
Dict(items) == [t |-> "map", v |-> items]
List(items) == [t |-> "seq", v |-> items]

is_scalar(node) == node.t \in {"str", "num", "bool"}

\* dict[key]
dict_get(node, key) ==
    node.v[CHOOSE i \in DOMAIN node.v : node.v[i][1] = key][2]

dict_keys(node) == [i \in DOMAIN node.v |-> node.v[i][1]]

\* dict[key] = value: a new key goes to the end, a key already there keeps
\* its place
dict_set(node, key, value) ==
    IF \E i \in DOMAIN node.v : node.v[i][1] = key
    THEN Dict([i \in DOMAIN node.v |->
                  IF node.v[i][1] = key THEN <<key, value>> ELSE node.v[i]])
    ELSE Dict(Append(node.v, <<key, value>>))

\* dict.update(other)
dict_update(node, other) ==
    FoldLeft(LAMBDA d, item : dict_set(d, item[1], item[2]), node, other.v)

\* list.extend(values)
list_extend(node, values) == List(node.v \o values)

Spaces(n) == SubSeq("                                ", 1, n)

Digits == {"0", "1", "2", "3", "4", "5", "6", "7", "8", "9"}

\* words and numbers that yaml would not read back as a string
resolves_as_other(s) ==
    \/ s \in {"", "~", "null", "Null", "NULL", "true", "True", "TRUE", "false", "False",
              "FALSE", "yes", "Yes", "YES", "no", "No", "NO", "on", "On", "ON", "off",
              "Off", "OFF"}
    \/ /\ \E i \in 1..Len(s) : SubSeq(s, i, i) \in Digits
       /\ \A i \in 1..Len(s) : SubSeq(s, i, i) \in Digits \cup {"."}
       /\ Cardinality({i \in 1..Len(s) : SubSeq(s, i, i) = "."}) <= 1

\* a string that cannot be written as a plain scalar of a block
needs_quotes(s) ==
    \/ resolves_as_other(s)
    \/ SubSeq(s, 1, 1) \in {"#", ",", "[", "]", "{", "}", "&", "*", "!", "|", ">", "'",
                            "\"", "%", "@", " "}
    \/ \E start \in {"- ", "? ", ": "} : StartsWith(s, start)
    \/ SubSeq(s, Len(s), Len(s)) \in {" ", ":"}
    \/ Occurrences(s, ": ") # {}
    \/ Occurrences(s, " #") # {}

\* the text of a scalar: a string is written plain, or in single quotes when
\* it could be read as something else.  Lines are not folded at 80 columns.
scalar_text(node) ==
    IF node.t = "str" /\ needs_quotes(node.v) THEN "'" \o node.v \o "'" ELSE node.v

\* The block of a dict or a list at an indentation; the items of a list that
\* is the value of a key are written at the indentation of the key.
RECURSIVE block(_, _)
block(node, indent) ==
    IF node.t = "map"
    THEN FoldLeft(LAMBDA text, item :
                      LET key == Spaces(indent) \o scalar_text(Str(item[1])) \o ":"
                          value == item[2]
                      IN  text \o key \o
                          (IF is_scalar(value) THEN " " \o scalar_text(value) \o "\n"
                           ELSE IF value.v = <<>>
                           THEN (IF value.t = "map" THEN " {}\n" ELSE " []\n")
                           ELSE "\n" \o block(value, IF value.t = "seq" THEN indent
                                                     ELSE indent + 2)),
                  "", node.v)
    ELSE FoldLeft(LAMBDA text, value :
                      text \o Spaces(indent) \o "- " \o
                      (IF is_scalar(value) THEN scalar_text(value) \o "\n"
                       ELSE IF value.v = <<>>
                       THEN (IF value.t = "map" THEN "{}\n" ELSE "[]\n")
                       ELSE LET inner == block(value, indent + 2)
                            IN  SubSeq(inner, indent + 3, Len(inner))),
                  "", node.v)

yaml_dump(document) == block(document, 0)

-----------------------------------------------------------------------------
(* Pipeline generators *)

\* A variant of has_technology: only the first entry is looked at
has_technology_first(technologies, name) ==
    technologies # <<>> /\ technologies[1].name = name

\* any(tech.name == name for tech in technologies)
has_technology(technologies, name) ==
    \E i \in DOMAIN technologies : technologies[i].name = name

(* GitHubActionsGenerator *)

\* GitHubActionsGenerator._python_jobs
python_jobs(analysis) ==
    LET jobs ==
            Dict(<< <<"lint", Dict(<< <<"runs-on", Str("ubuntu-latest")>>,
                        <<"steps", List(<< Dict(<< <<"uses", Str("actions/checkout@v4")>> >>),
                            Dict(<< <<"uses", Str("actions/setup-python@v4")>>,
                                <<"with", Dict(<< <<"python-version", Str("3.11")>> >>)>> >>),
                            Dict(<< <<"name", Str("Cache pip dependencies")>>,
                                <<"uses", Str("actions/cache@v3")>>,
                                <<"with", Dict(<< <<"path", Str("~/.cache/pip")>>,
                                    <<"key", Str("${{ runner.os }}-pip-${{ hashFiles('**/requirements*.txt') }}")>>,
                                    <<"restore-keys", Str("${{ runner.os }}-pip-")>> >>)>> >>),
                            Dict(<< <<"run", Str("pip install flake8 black isort")>> >>),
                            Dict(<< <<"run", Str("flake8 . --max-line-length=88 --exclude=venv,env")>> >>),
                            Dict(<< <<"run", Str("black --check .")>> >>),
                            Dict(<< <<"run", Str("isort --check-only .")>> >>) >>)>> >>)>>,
                    <<"test", Dict(<< <<"runs-on", Str("ubuntu-latest")>>,
                        <<"strategy", Dict(<< <<"matrix", Dict(<< <<"python-version", List(<< Str("3.9"), Str("3.10"), Str("3.11") >>)>> >>)>> >>)>>,
                        <<"steps", List(<< Dict(<< <<"uses", Str("actions/checkout@v4")>> >>),
                            Dict(<< <<"uses", Str("actions/setup-python@v4")>>,
                                <<"with", Dict(<< <<"python-version", Str("${{ matrix.python-version }}")>> >>)>> >>),
                            Dict(<< <<"name", Str("Cache pip dependencies")>>,
                                <<"uses", Str("actions/cache@v3")>>,
                                <<"with", Dict(<< <<"path", Str("~/.cache/pip")>>,
                                    <<"key", Str("${{ runner.os }}-pip-${{ hashFiles('**/requirements*.txt') }}")>>,
                                    <<"restore-keys", Str("${{ runner.os }}-pip-")>> >>)>> >>) >>)>> >>)>> >>)
        test == dict_get(jobs, "test")
        dependencies ==
            IF has_technology(analysis.build_tools, "poetry")
            THEN << Dict(<< <<"run", Str("pip install poetry")>> >>),
                    Dict(<< <<"run", Str("poetry install")>> >>),
                    Dict(<< <<"run", Str("poetry run pytest --cov=. --cov-report=xml")>> >>) >>
            ELSE << Dict(<< <<"run", Str("pip install -r requirements.txt || pip install -r requirements/dev.txt || echo 'No requirements file found'")>> >>),
                    Dict(<< <<"run", Str("pip install pytest pytest-cov")>> >>) >>
                 \o (IF has_technology(analysis.test_tools, "pytest")
                     THEN <<Dict(<< <<"run", Str("pytest --cov=. --cov-report=xml")>> >>)>>
                     ELSE <<Dict(<< <<"run", Str("python -m pytest || python -m unittest discover")>> >>)>>)
        coverage ==
            Dict(<< <<"name", Str("Upload coverage to Codecov")>>,
                    <<"uses", Str("codecov/codecov-action@v3")>>,
                    <<"with", Dict(<< <<"file", Str("./coverage.xml")>> >>)>> >>)
    IN  dict_set(jobs, "test",
                 dict_set(test, "steps",
                          list_extend(dict_get(test, "steps"), Append(dependencies, coverage))))

\* the table install_cmd of _javascript_jobs
install_cmd(package_manager) ==
    CASE package_manager = "npm" -> "npm ci"
      [] package_manager = "yarn" -> "yarn install --frozen-lockfile"
      [] package_manager = "pnpm" -> "pnpm install --frozen-lockfile"

\* GitHubActionsGenerator._javascript_jobs
javascript_jobs(analysis) ==
    LET package_manager ==
            IF has_technology(analysis.package_managers, "yarn") THEN "yarn"
            ELSE IF has_technology(analysis.package_managers, "pnpm") THEN "pnpm"
            ELSE "npm"
    IN  Dict(<< <<"lint-and-test", Dict(<< <<"runs-on", Str("ubuntu-latest")>>,
                        <<"strategy", Dict(<< <<"matrix", Dict(<< <<"node-version", List(<< Str("16"), Str("18"), Str("20") >>)>> >>)>> >>)>>,
                        <<"steps", List(<< Dict(<< <<"uses", Str("actions/checkout@v4")>> >>),
                            Dict(<< <<"uses", Str("actions/setup-node@v4")>>,
                                <<"with", Dict(<< <<"node-version", Str("${{ matrix.node-version }}")>>,
                                    <<"cache", Str(package_manager)>> >>)>> >>),
                            Dict(<< <<"run", Str(install_cmd(package_manager))>> >>),
                            Dict(<< <<"run", Str(package_manager \o " run lint || echo 'No lint script found'")>> >>),
                            Dict(<< <<"run", Str(package_manager \o " run test || echo 'No test script found'")>> >>),
                            Dict(<< <<"run", Str(package_manager \o " run build || echo 'No build script found'")>> >>) >>)>> >>)>> >>)

\* GitHubActionsGenerator._go_jobs
go_jobs(analysis) ==
    Dict(<< <<"lint-and-test", Dict(<< <<"runs-on", Str("ubuntu-latest")>>,
                    <<"steps", List(<< Dict(<< <<"uses", Str("actions/checkout@v4")>> >>),
                        Dict(<< <<"uses", Str("actions/setup-go@v4")>>,
                            <<"with", Dict(<< <<"go-version", Str("1.21")>> >>)>> >>),
                        Dict(<< <<"name", Str("Cache Go modules")>>,
                            <<"uses", Str("actions/cache@v3")>>,
                            <<"with", Dict(<< <<"path", Str("~/go/pkg/mod")>>,
                                <<"key", Str("${{ runner.os }}-go-${{ hashFiles('**/go.sum') }}")>>,
                                <<"restore-keys", Str("${{ runner.os }}-go-")>> >>)>> >>),
                        Dict(<< <<"run", Str("go mod download")>> >>),
                        Dict(<< <<"run", Str("go vet ./...")>> >>),
                        Dict(<< <<"run", Str("go test -race -coverprofile=coverage.out ./...")>> >>),
                        Dict(<< <<"run", Str("go build -v ./...")>> >>) >>)>> >>)>> >>)

\* A variant of java_jobs: the job is named build
java_jobs_named_build(analysis) ==
    Dict(<< <<"build", Dict(<< <<"runs-on", Str("ubuntu-latest")>>,
                               <<"steps", List(<< Dict(<< <<"uses", Str("actions/checkout@v4")>> >>),
                                                  Dict(<< <<"run", Str("mvn clean test")>> >>) >>)>> >>)>> >>)

\* GitHubActionsGenerator._java_jobs
java_jobs(analysis) ==
    IF has_technology(analysis.build_tools, "maven")
    THEN Dict(<< <<"test", Dict(<< <<"runs-on", Str("ubuntu-latest")>>,
                     <<"steps", List(<< Dict(<< <<"uses", Str("actions/checkout@v4")>> >>),
                         Dict(<< <<"uses", Str("actions/setup-java@v4")>>,
                             <<"with", Dict(<< <<"java-version", Str("11")>>,
                                 <<"distribution", Str("temurin")>> >>)>> >>),
                         Dict(<< <<"name", Str("Cache Maven dependencies")>>,
                             <<"uses", Str("actions/cache@v3")>>,
                             <<"with", Dict(<< <<"path", Str("~/.m2")>>,
                                 <<"key", Str("${{ runner.os }}-m2-${{ hashFiles('**/pom.xml') }}")>>,
                                 <<"restore-keys", Str("${{ runner.os }}-m2")>> >>)>> >>),
                         Dict(<< <<"run", Str("mvn clean compile")>> >>),
                         Dict(<< <<"run", Str("mvn test")>> >>),
                         Dict(<< <<"run", Str("mvn package")>> >>) >>)>> >>)>> >>)
    ELSE IF has_technology(analysis.build_tools, "gradle")
    THEN Dict(<< <<"test", Dict(<< <<"runs-on", Str("ubuntu-latest")>>,
                     <<"steps", List(<< Dict(<< <<"uses", Str("actions/checkout@v4")>> >>),
                         Dict(<< <<"uses", Str("actions/setup-java@v4")>>,
                             <<"with", Dict(<< <<"java-version", Str("11")>>,
                                 <<"distribution", Str("temurin")>> >>)>> >>),
                         Dict(<< <<"name", Str("Cache Gradle dependencies")>>,
                             <<"uses", Str("actions/cache@v3")>>,
                             <<"with", Dict(<< <<"path", Str("~/.gradle/caches")>>,
                                 <<"key", Str("${{ runner.os }}-gradle-${{ hashFiles('**/*.gradle') }}")>>,
                                 <<"restore-keys", Str("${{ runner.os }}-gradle-")>> >>)>> >>),
                         Dict(<< <<"run", Str("./gradlew build test")>> >>) >>)>> >>)>> >>)
    ELSE Dict(<< <<"test", Dict(<< <<"runs-on", Str("ubuntu-latest")>>,
                     <<"steps", List(<< Dict(<< <<"uses", Str("actions/checkout@v4")>> >>),
                         Dict(<< <<"uses", Str("actions/setup-java@v4")>>,
                             <<"with", Dict(<< <<"java-version", Str("11")>>,
                                 <<"distribution", Str("temurin")>> >>)>> >>),
                         Dict(<< <<"run", Str("javac *.java")>> >>),
                         Dict(<< <<"run", Str("java -cp . Main || echo 'Specify your main class'")>> >>) >>)>> >>)>> >>)

\* GitHubActionsGenerator._docker_job
docker_job ==
    Dict(<< <<"runs-on", Str("ubuntu-latest")>>,
            <<"steps", List(<< Dict(<< <<"uses", Str("actions/checkout@v4")>> >>),
                Dict(<< <<"name", Str("Set up Docker Buildx")>>,
                    <<"uses", Str("docker/setup-buildx-action@v3")>> >>),
                Dict(<< <<"name", Str("Login to Docker Hub")>>,
                    <<"uses", Str("docker/login-action@v3")>>,
                    <<"with", Dict(<< <<"username", Str("${{ secrets.DOCKERHUB_USERNAME }}")>>,
                        <<"password", Str("${{ secrets.DOCKERHUB_TOKEN }}")>> >>)>> >>),
                Dict(<< <<"name", Str("Build and push")>>,
                    <<"uses", Str("docker/build-push-action@v5")>>,
                    <<"with", Dict(<< <<"context", Str(".")>>,
                        <<"platforms", Str("linux/amd64,linux/arm64")>>,
                        <<"push", Bool(TRUE)>>,
                        <<"tags", Str("${{ secrets.DOCKERHUB_USERNAME }}/myapp:latest,${{ secrets.DOCKERHUB_USERNAME }}/myapp:${{ github.sha }}")>> >>)>> >>) >>)>> >>)

\* GitHubActionsGenerator.generate
GitHubActionsGenerator_generate(analysis, options) ==
    LET workflow ==
            Dict(<< <<"name", Str("CI")>>,
                    <<"on", Dict(<< <<"push", Dict(<< <<"branches", List(<< Str("main"), Str("master"), Str("develop") >>)>> >>)>>,
                        <<"pull_request", Dict(<< <<"branches", List(<< Str("main"), Str("master") >>)>> >>)>> >>)>>,
                    <<"jobs", Dict(<<>>)>> >>)
        jobs ==
            CASE analysis.primary_language = "python" -> python_jobs(analysis)
              [] analysis.primary_language = "javascript" -> javascript_jobs(analysis)
              [] analysis.primary_language = "go" -> go_jobs(analysis)
              [] analysis.primary_language = "java" -> java_jobs(analysis)
              [] OTHER ->
                    Dict(<< <<"build", Dict(<< <<"runs-on", Str("ubuntu-latest")>>,
                                <<"steps", List(<< Dict(<< <<"uses", Str("actions/checkout@v4")>> >>),
                                    Dict(<< <<"run", Str("echo 'Add your build steps here'")>> >>) >>)>> >>)>> >>)
        with_jobs == dict_set(workflow, "jobs", dict_update(dict_get(workflow, "jobs"), jobs))
    IN  yaml_dump(IF has_technology(analysis.containers, "docker")
                  THEN dict_set(with_jobs, "jobs",
                                dict_set(dict_get(with_jobs, "jobs"), "docker", docker_job))
                  ELSE with_jobs)

(* GitLabCIGenerator *)

\* GitLabCIGenerator._python_gitlab_jobs
python_gitlab_jobs(analysis) ==
    LET jobs ==
            Dict(<< <<"lint", Dict(<< <<"stage", Str("lint")>>,
                        <<"image", Str("python:3.11")>>,
                        <<"before_script", List(<< Str("pip install --upgrade pip"),
                            Str("pip install flake8 black isort") >>)>>,
                        <<"script", List(<< Str("flake8 . --max-line-length=88 --exclude=venv,env"),
                            Str("black --check ."),
                            Str("isort --check-only .") >>)>> >>)>>,
                    <<"test", Dict(<< <<"stage", Str("test")>>,
                        <<"image", Str("python:3.11")>>,
                        <<"before_script", List(<< Str("pip install --upgrade pip") >>)>>,
                        <<"script", List(<<>>)>>,
                        <<"coverage", Str("/coverage: \\d+%/")>>,
                        <<"artifacts", Dict(<< <<"reports", Dict(<< <<"coverage_report", Dict(<< <<"coverage_format", Str("cobertura")>>,
                                    <<"path", Str("coverage.xml")>> >>)>> >>)>> >>)>> >>)>> >>)
        test == dict_get(jobs, "test")
        poetry == has_technology(analysis.build_tools, "poetry")
        before_script ==
            list_extend(dict_get(test, "before_script"),
                        IF poetry
                        THEN << Str("pip install poetry"),
                                Str("poetry install") >>
                        ELSE <<Str("pip install -r requirements.txt || pip install pytest pytest-cov")>>)
        script ==
            IF poetry
            THEN List(<< Str("poetry run pytest --cov=. --cov-report=xml") >>)
            ELSE List(<< Str("pytest --cov=. --cov-report=xml") >>)
    IN  dict_set(jobs, "test",
                 dict_set(dict_set(test, "before_script", before_script), "script", script))

\* GitLabCIGenerator._javascript_gitlab_jobs
javascript_gitlab_jobs(analysis) ==
    LET package_manager ==
            IF has_technology(analysis.package_managers, "yarn") THEN "yarn" ELSE "npm"
    IN  Dict(<< <<"test", Dict(<< <<"stage", Str("test")>>,
                    <<"image", Str("node:18")>>,
                    <<"cache", Dict(<< <<"paths", List(<< Str("node_modules/") >>)>> >>)>>,
                    <<"before_script", List(<< Str(package_manager \o " install") >>)>>,
                    <<"script", List(<< Str(package_manager \o " run lint || echo 'No lint script'"),
                        Str(package_manager \o " run test || echo 'No test script'"),
                        Str(package_manager \o " run build || echo 'No build script'") >>)>> >>)>> >>)

\* GitLabCIGenerator._go_gitlab_jobs
go_gitlab_jobs(analysis) ==
    Dict(<< <<"test", Dict(<< <<"stage", Str("test")>>,
                    <<"image", Str("golang:1.21")>>,
                    <<"before_script", List(<< Str("go mod download") >>)>>,
                    <<"script", List(<< Str("go vet ./..."),
                        Str("go test -race -coverprofile=coverage.out ./..."),
                        Str("go build -v ./...") >>)>> >>)>> >>)

\* GitLabCIGenerator._java_gitlab_jobs
java_gitlab_jobs(analysis) ==
    IF has_technology(analysis.build_tools, "maven")
    THEN Dict(<< <<"test", Dict(<< <<"stage", Str("test")>>,
                     <<"image", Str("maven:3.8-openjdk-11")>>,
                     <<"cache", Dict(<< <<"paths", List(<< Str(".m2/repository/") >>)>> >>)>>,
                     <<"script", List(<< Str("mvn clean compile test package") >>)>>,
                     <<"artifacts", Dict(<< <<"paths", List(<< Str("target/") >>)>> >>)>> >>)>> >>)
    ELSE Dict(<< <<"test", Dict(<< <<"stage", Str("test")>>,
                     <<"image", Str("openjdk:11")>>,
                     <<"script", List(<< Str("javac *.java"),
                         Str("java Main || echo 'Specify your main class'") >>)>> >>)>> >>)

\* GitLabCIGenerator._docker_gitlab_job
docker_gitlab_job ==
    Dict(<< <<"stage", Str("build")>>,
            <<"image", Str("docker:latest")>>,
            <<"services", List(<< Str("docker:dind") >>)>>,
            <<"before_script", List(<< Str("docker login -u $CI_REGISTRY_USER -p $CI_REGISTRY_PASSWORD $CI_REGISTRY") >>)>>,
            <<"script", List(<< Str("docker build -t $CI_REGISTRY_IMAGE:$CI_COMMIT_SHA ."),
                Str("docker push $CI_REGISTRY_IMAGE:$CI_COMMIT_SHA") >>)>> >>)

\* GitLabCIGenerator.generate
GitLabCIGenerator_generate(analysis, options) ==
    LET pipeline ==
            Dict(<< <<"stages", List(<< Str("lint"), Str("test"), Str("build"), Str("deploy") >>)>>,
                    <<"variables", Dict(<< <<"PIP_CACHE_DIR", Str("$CI_PROJECT_DIR/.cache/pip")>>,
                        <<"NODE_CACHE_DIR", Str("$CI_PROJECT_DIR/.cache/node")>> >>)>>,
                    <<"cache", Dict(<< <<"paths", List(<< Str(".cache/") >>)>> >>)>> >>)
        jobs ==
            CASE analysis.primary_language = "python" -> python_gitlab_jobs(analysis)
              [] analysis.primary_language = "javascript" -> javascript_gitlab_jobs(analysis)
              [] analysis.primary_language = "go" -> go_gitlab_jobs(analysis)
              [] analysis.primary_language = "java" -> java_gitlab_jobs(analysis)
              [] OTHER -> Dict(<<>>)
        with_jobs == dict_update(pipeline, jobs)
    IN  yaml_dump(IF has_technology(analysis.containers, "docker")
                  THEN dict_set(with_jobs, "docker-build", docker_gitlab_job)
                  ELSE with_jobs)

(* CircleCIGenerator *)

\* CircleCIGenerator._python_circleci_jobs
python_circleci_jobs(analysis) ==
    Dict(<< <<"test", Dict(<< <<"docker", List(<< Dict(<< <<"image", Str("cimg/python:3.11")>> >>) >>)>>,
                    <<"steps", List(<< Str("checkout"),
                        Dict(<< <<"restore_cache", Dict(<< <<"keys", List(<< Str("pip-packages-v1-{{ .Branch }}-{{ checksum \"requirements.txt\" }}"),
                                    Str("pip-packages-v1-{{ .Branch }}-"),
                                    Str("pip-packages-v1-") >>)>> >>)>> >>),
                        Dict(<< <<"run", Dict(<< <<"name", Str("Install dependencies")>>,
                                <<"command", Str("pip install -r requirements.txt || pip install pytest pytest-cov")>> >>)>> >>),
                        Dict(<< <<"save_cache", Dict(<< <<"key", Str("pip-packages-v1-{{ .Branch }}-{{ checksum \"requirements.txt\" }}")>>,
                                <<"paths", List(<< Str("/home/circleci/.cache/pip") >>)>> >>)>> >>),
                        Dict(<< <<"run", Dict(<< <<"name", Str("Run tests")>>,
                                <<"command", Str("pytest --cov=. --cov-report=xml")>> >>)>> >>) >>)>> >>)>> >>)

\* CircleCIGenerator._javascript_circleci_jobs
javascript_circleci_jobs(analysis) ==
    Dict(<< <<"test", Dict(<< <<"docker", List(<< Dict(<< <<"image", Str("cimg/node:18.0")>> >>) >>)>>,
                    <<"steps", List(<< Str("checkout"),
                        Dict(<< <<"restore_cache", Dict(<< <<"keys", List(<< Str("npm-packages-v1-{{ .Branch }}-{{ checksum \"package-lock.json\" }}"),
                                    Str("npm-packages-v1-{{ .Branch }}-"),
                                    Str("npm-packages-v1-") >>)>> >>)>> >>),
                        Dict(<< <<"run", Str("npm ci")>> >>),
                        Dict(<< <<"save_cache", Dict(<< <<"key", Str("npm-packages-v1-{{ .Branch }}-{{ checksum \"package-lock.json\" }}")>>,
                                <<"paths", List(<< Str("/home/circleci/.npm") >>)>> >>)>> >>),
                        Dict(<< <<"run", Str("npm run test || echo 'No test script'")>> >>) >>)>> >>)>> >>)

\* CircleCIGenerator._go_circleci_jobs
go_circleci_jobs(analysis) ==
    Dict(<< <<"test", Dict(<< <<"docker", List(<< Dict(<< <<"image", Str("cimg/go:1.21")>> >>) >>)>>,
                    <<"steps", List(<< Str("checkout"),
                        Dict(<< <<"run", Str("go mod download")>> >>),
                        Dict(<< <<"run", Str("go test -v ./...")>> >>),
                        Dict(<< <<"run", Str("go build -v ./...")>> >>) >>)>> >>)>> >>)

\* A variant of add_circleci_jobs: the jobs are defined and not scheduled
add_circleci_jobs_unscheduled(config, jobs) ==
    dict_set(config, "jobs", dict_update(dict_get(config, "jobs"), jobs))

\* "config['jobs'].update(jobs)" and
\* "config['workflows']['build_and_test']['jobs'].extend(jobs.keys())"
add_circleci_jobs(config, jobs) ==
    LET workflows == dict_get(config, "workflows")
        build_and_test == dict_get(workflows, "build_and_test")
        scheduled == list_extend(dict_get(build_and_test, "jobs"),
                                 [i \in DOMAIN jobs.v |-> Str(dict_keys(jobs)[i])])
    IN  dict_set(dict_set(config, "jobs", dict_update(dict_get(config, "jobs"), jobs)),
                 "workflows",
                 dict_set(workflows, "build_and_test",
                          dict_set(build_and_test, "jobs", scheduled)))

\* CircleCIGenerator.generate
CircleCIGenerator_generate(analysis, options) ==
    LET config ==
            Dict(<< <<"version", Num("2.1")>>,
                    <<"jobs", Dict(<<>>)>>,
                    <<"workflows", Dict(<< <<"version", Num("2")>>,
                        <<"build_and_test", Dict(<< <<"jobs", List(<<>>)>> >>)>> >>)>> >>)
    IN  yaml_dump(CASE analysis.primary_language = "python" ->
                           add_circleci_jobs(config, python_circleci_jobs(analysis))
                    [] analysis.primary_language = "javascript" ->
                           add_circleci_jobs(config, javascript_circleci_jobs(analysis))
                    [] analysis.primary_language = "go" ->
                           add_circleci_jobs(config, go_circleci_jobs(analysis))
                    [] OTHER -> config)

-----------------------------------------------------------------------------
(* RulesEngine *)

UpperCase == "ABCDEFGHIJKLMNOPQRSTUVWXYZ"
LowerCase == "abcdefghijklmnopqrstuvwxyz"

\* str.lower, for the letters A to Z
RECURSIVE lower(_)
lower(s) ==
    IF s = "" THEN ""
    ELSE LET c == SubSeq(s, 1, 1)
             at == {i \in 1..Len(UpperCase) : SubSeq(UpperCase, i, i) = c}
         IN  (IF at = {} THEN c
              ELSE LET i == CHOOSE k \in at : TRUE IN SubSeq(LowerCase, i, i))
             \o lower(SubSeq(s, 2, Len(s)))

\* an entry of the caching table: a dict of cache paths by package manager, or
\* one cache path
CacheTable(paths) == [is_dict |-> TRUE, v |-> paths]
CachePath(path) == [is_dict |-> FALSE, v |-> path]

\* RulesEngine._load_rules
load_rules ==
    [optimization_rules |->
        [caching |->
            [python |-> CacheTable([pip |-> "~/.cache/pip", poetry |-> "~/.cache/pypoetry"]),
             javascript |-> CacheTable([npm |-> "~/.npm", yarn |-> "~/.cache/yarn"]),
             go |-> CachePath("~/go/pkg/mod"),
             java |-> CacheTable([maven |-> "~/.m2", gradle |-> "~/.gradle/caches"])],
         parallel_jobs |->
            [lint_and_test |-> <<"python", "javascript", "go">>,
             multi_version |-> <<"python", "javascript", "java">>]],
     security_rules |->
        [secret_scanning |-> <<"python", "javascript", "go", "java">>,
         dependency_check |->
            [python |-> <<"safety", "bandit">>,
             javascript |-> <<"npm audit", "snyk">>,
             java |-> <<"owasp dependency check">>,
             go |-> <<"gosec">>]],
     deployment_rules |->
        [docker |-> [trigger |-> <<"Dockerfile">>,
                     registries |-> <<"dockerhub", "ghcr", "ecr">>],
         kubernetes |-> [trigger |-> <<"k8s", "kubernetes">>, manifest_check |-> TRUE]]]

\* A variant of cache_keys: the build tools are looked up as well
cache_keys_of_tools(analysis, cache_config) ==
    {tech.name : tech \in {t \in Range(analysis.package_managers \o analysis.build_tools) :
                              lower(t.name) \in DOMAIN cache_config}}

\* "for tech in analysis.package_managers: if tech.name.lower() in cache_config":
\* the keys the loop sets in options["caching"]
cache_keys(analysis, cache_config) ==
    {tech.name : tech \in {t \in Range(analysis.package_managers) :
                              lower(t.name) \in DOMAIN cache_config}}

\* RulesEngine.apply_optimizations.  A dict of the options is a function of
\* its keys: two dicts are equal when they hold the same keys and values.
apply_optimizations(analysis, generator_type) ==
    LET rules == load_rules
        language == analysis.primary_language
        cache_rules == rules.optimization_rules.caching
        caching ==
            IF language \in DOMAIN cache_rules
            THEN LET cache_config == cache_rules[language]
                 IN  IF cache_config.is_dict
                     THEN [name \in cache_keys(analysis, cache_config.v) |->
                              cache_config.v[lower(name)]]
                     ELSE [name \in {language} |-> cache_config.v]
            ELSE [name \in {} |-> ""]
        secret_scanning ==
            IF language \in Range(rules.security_rules.secret_scanning)
            THEN <<"secret_scanning">> ELSE <<>>
        dependency_check ==
            IF language \in DOMAIN rules.security_rules.dependency_check
            THEN rules.security_rules.dependency_check[language] ELSE <<>>
    IN  [caching |-> caching,
         parallel_jobs |->
             language \in Range(rules.optimization_rules.parallel_jobs.lint_and_test),
         security_scans |-> secret_scanning \o dependency_check,
         deployment |->
             [name \in {n \in {"docker", "kubernetes"} :
                           has_technology(analysis.containers, n)} |-> TRUE]]

-----------------------------------------------------------------------------
(* PipelineOptimizer *)

\* the keys of PipelineOptimizer.optimization_strategies
optimization_strategies == <<"caching", "parallelization", "resource_allocation", "security">>

\* _optimize_caching, _optimize_parallelization, _optimize_resources and
\* _optimize_security: each returns the pipeline it is given
strategy_func(strategy_name, pipeline, analysis, ci_type) == pipeline

\* PipelineOptimizer.optimize
optimize(pipeline_content, analysis, ci_type) ==
    FoldLeft(LAMBDA optimized_pipeline, strategy_name :
                 strategy_func(strategy_name, optimized_pipeline, analysis, ci_type),
             pipeline_content, optimization_strategies)

-----------------------------------------------------------------------------
(* AutoCI *)

\* the keys of AutoCI.generators
generators == <<"github", "gitlab", "circleci">>

\* self.generators[ci_type].generate(analysis, options)
generate(ci_type, analysis, options) ==
    CASE ci_type = "github" -> GitHubActionsGenerator_generate(analysis, options)
      [] ci_type = "gitlab" -> GitLabCIGenerator_generate(analysis, options)
      [] ci_type = "circleci" -> CircleCIGenerator_generate(analysis, options)

\* repr of a list of strings: "['a', 'b']"
RECURSIVE repr_items(_)
repr_items(names) ==
    IF names = <<>> THEN ""
    ELSE "'" \o Head(names) \o "'"
         \o (IF Len(names) > 1 THEN ", " ELSE "") \o repr_items(Tail(names))

\* A variant of repr_list: the items are left out
repr_list_empty(names) == "[]"

repr_list(names) == "[" \o repr_items(names) \o "]"

\* str(e) of an OSError, without the file name that follows it
strerror(error) ==
    CASE error = "IsADirectoryError" -> "[Errno 21] Is a directory"
      [] error = "NotADirectoryError" -> "[Errno 20] Not a directory"
      [] error = "FileExistsError" -> "[Errno 17] File exists"
      [] error = "PermissionError" -> "[Errno 13] Permission denied"
      [] OTHER -> error

\* What a call of AutoCI that raised leaves its caller with; steps are the
\* steps the call entered, in order (the one that raised, if any, is the last).
Failure(error, message, steps) ==
    [outcome |-> "raised", error |-> error, message |-> message,
     pipeline_content |-> None, analysis |-> NoAnalysis, steps |-> steps]

\* the tuple (pipeline_content, analysis) that generate_pipeline returns
Pipeline(pipeline_content, analysis, steps) ==
    [outcome |-> "returned", error |-> "none", message |-> "",
     pipeline_content |-> pipeline_content, analysis |-> analysis, steps |-> steps]

\* "if ci_type not in self.generators: raise ValueError"
supported(ci_type) == ci_type \in Range(generators)

\* AutoCI.generate_pipeline from step 2 on, for a scan that returned
pipeline_of(analysis, ci_type, optimize_requested) ==
    LET options == apply_optimizations(analysis, ci_type)
        pipeline_content == generate(ci_type, analysis, options)
    IN  IF ~supported(ci_type)
        THEN Failure("ValueError",
                     "Unsupported CI type: " \o ci_type \o ". Supported: "
                         \o repr_list(generators),
                     <<"apply_optimizations">>)
        ELSE IF optimize_requested
        THEN Pipeline(optimize(pipeline_content, analysis, ci_type), analysis,
                      <<"apply_optimizations", "generate", "optimize">>)
        ELSE Pipeline(pipeline_content, analysis, <<"apply_optimizations", "generate">>)

\* the failure of generate_pipeline when its scan raised
scan_failure(scan, arg) ==
    Failure(scan.error,
            IF scan.error = "ValueError"
            THEN "Repository path does not exist: " \o path_str(resolve(arg))
            ELSE strerror(scan.error),
            scan.invoked)

\* A variant of generate_pipeline: ci_type is looked at before the scan
generate_pipeline_type_first(tree, arg, ci_type, optimize_requested) ==
    CHOOSE result \in
        {IF ~supported(ci_type)
         THEN Failure("ValueError",
                      "Unsupported CI type: " \o ci_type \o ". Supported: "
                          \o repr_list(generators),
                      <<>>)
         ELSE IF scan.outcome = "raised" THEN scan_failure(scan, arg)
         ELSE [pipeline_of(scan.analysis, ci_type, optimize_requested)
                   EXCEPT !.steps = scan.invoked \o @] :
             scan \in {scan_repository(load_detection_rules, tree, arg)}} : TRUE

\* AutoCI.generate_pipeline: the scan is made once, and its exception is the
\* exception of the call.  The steps of a call are the detectors of the scan
\* that ran, followed by the later steps.
generate_pipeline(tree, arg, ci_type, optimize_requested) ==
    CHOOSE result \in
        {IF scan.outcome = "raised" THEN scan_failure(scan, arg)
         ELSE [pipeline_of(scan.analysis, ci_type, optimize_requested)
                   EXCEPT !.steps = scan.invoked \o @] :
             scan \in {scan_repository(load_detection_rules, tree, arg)}} : TRUE

\* the table ci_file_paths of save_pipeline: the place of the file below
\* output_path
ci_file_paths ==
    [github |-> <<".github", "workflows", "ci.yml">>,
     gitlab |-> <<".gitlab-ci.yml">>,
     circleci |-> <<".circleci", "config.yml">>]

\* what save_pipeline hands to its caller, and the tree it leaves
Saved(outcome, error, file_path, tree) ==
    [outcome |-> outcome, error |-> error, file_path |-> file_path, tree |-> tree]

\* str(file_path) of a path given relative to the working directory /repo
relative_str(path) == IF path = <<>> THEN "." ELSE Join(path)

\* output_path=None, written as a path like the other values of the argument
NoPath == <<None>>

\* AutoCI.save_pipeline; output_path is None or a path relative to the
\* working directory /repo
save_pipeline(tree, pipeline_content, ci_type, output_path) ==
    IF ci_type \notin DOMAIN ci_file_paths THEN Saved("raised", "ValueError", None, tree)
    ELSE LET file_path ==
                 resolve((IF output_path = NoPath THEN <<".">> ELSE output_path)
                         \o ci_file_paths[ci_type])
             made == mkdir(tree, Parent(file_path))
             written == write_text(made.tree, file_path, pipeline_content)
         IN  IF made.exc # "none" THEN Saved("raised", made.exc, None, made.tree)
             ELSE IF written.exc # "none"
             THEN Saved("raised", written.exc, None, written.tree)
             ELSE Saved("returned", "none", relative_str(file_path), written.tree)

\* Path(analysis.repo_path): the path that str() wrote
path_of(text) == CHOOSE path \in {<<>>} \cup AllPaths : path_str(path) = text

\* AutoCI._generate_recommendations
generate_recommendations(analysis) ==
    (IF analysis.test_tools = <<>>
     THEN CASE analysis.primary_language = "python" ->
                   <<"Consider adding pytest for testing">>
            [] analysis.primary_language = "javascript" ->
                   <<"Consider adding Jest or Mocha for testing">>
            [] analysis.primary_language = "java" ->
                   <<"Consider adding JUnit for testing">>
            [] OTHER -> <<>>
     ELSE <<>>)
    \o (IF /\ analysis.primary_language = "python"
           /\ ~\E i \in DOMAIN analysis.build_tools :
                  analysis.build_tools[i].name \in {"black", "flake8", "pylint"}
        THEN <<"Consider adding code formatting tools like Black and linting with flake8">>
        ELSE <<>>)
    \o (IF analysis.containers = <<>>
        THEN <<"Consider containerizing your application with Docker">>
        ELSE <<>>)
    \o (IF analysis.package_managers = <<>>
        THEN <<"Consider using a package manager for dependency management">>
        ELSE <<>>)

\* the list ci_files of _check_missing_components
ci_files ==
    << <<".github", "workflows">>, <<".gitlab-ci.yml">>, <<".circleci", "config.yml">>,
       <<"Jenkinsfile">>, <<"azure-pipelines.yml">> >>

\* the table common_files of _check_missing_components
common_files ==
    << <<"README.md", "README file">>, <<".gitignore", "Git ignore file">>,
       <<"LICENSE", "License file">> >>

\* A variant of check_missing_components: only a regular file counts as a
\* pipeline configuration
check_missing_components_files(tree, analysis) ==
    LET repo_path == path_of(analysis.repo_path)
        has_ci == \E i \in DOMAIN ci_files : is_file(tree, repo_path \o ci_files[i])
    IN  (IF ~has_ci THEN <<"CI/CD pipeline configuration">> ELSE <<>>)
        \o FoldLeft(LAMBDA missing, common :
                        IF ~exists(tree, repo_path \o <<common[1]>>)
                        THEN Append(missing, common[2]) ELSE missing,
                    <<>>, common_files)

\* AutoCI._check_missing_components
check_missing_components(tree, analysis) ==
    LET repo_path == path_of(analysis.repo_path)
        has_ci == \E i \in DOMAIN ci_files : exists(tree, repo_path \o ci_files[i])
    IN  (IF ~has_ci THEN <<"CI/CD pipeline configuration">> ELSE <<>>)
        \o FoldLeft(LAMBDA missing, common :
                        IF ~exists(tree, repo_path \o <<common[1]>>)
                        THEN Append(missing, common[2]) ELSE missing,
                    <<>>, common_files)

\* [tech.name for tech in technologies]
names_of(technologies) == [i \in DOMAIN technologies |-> technologies[i].name]

\* the dictionary audit_repository builds from an analysis
audit_report(tree, arg, analysis) ==
    [repository |-> arg,
     primary_language |-> analysis.primary_language,
     detected_technologies |->
         [languages |-> names_of(analysis.languages),
          frameworks |-> names_of(analysis.frameworks),
          test_tools |-> names_of(analysis.test_tools),
          build_tools |-> names_of(analysis.build_tools),
          containers |-> names_of(analysis.containers),
          infrastructure |-> names_of(analysis.infrastructure)],
     recommendations |-> generate_recommendations(analysis),
     missing_components |-> check_missing_components(tree, analysis)]

\* what a call that raised hands to its caller in place of a report
NoReport == [raised |-> TRUE]

\* AutoCI.audit_repository: the scan is made once, and its exception is the
\* exception of the call
audit_repository(tree, arg) ==
    CHOOSE result \in
        {IF scan.outcome = "raised"
         THEN [outcome |-> "raised", error |-> scan.error, report |-> NoReport]
         ELSE [outcome |-> "returned", error |-> "none",
               report |-> audit_report(tree, arg, scan.analysis)] :
             scan \in {scan_repository(load_detection_rules, tree, arg)}} : TRUE

-----------------------------------------------------------------------------
(* The state machine *)

\* the RepoScanner instances
Scanners == {"s1", "s2"}

\* the repo_path arguments of scan_repository, relative to /repo
Args == {<<>>, <<".">>, <<"pkg">>, <<"Dockerfile">>}

NoCall == [op |-> "none"]

Call(op, scanner, arg, result) ==
    [op |-> op, scanner |-> scanner, arg |-> arg, result |-> result]

EmptyTree == [p \in AllPaths |-> Absent]

\* self.detection_rules of a scanner: the rules of the categories it holds
rules_of(s) == [category \in detection_rules[s] |-> load_detection_rules[category]]

\* Both scanners are constructed: RepoScanner.__init__ has loaded the rules.
Init ==
    /\ fs = EmptyTree
    /\ detection_rules = [s \in Scanners |-> DOMAIN load_detection_rules]
    /\ last = NoCall
    /\ ref = NoCall

\* The environment creates a file or a directory; the filesystem holds at most
\* limit entries
Create(path, entry, limit) ==
    /\ fs[path].kind = "absent"
    /\ is_dir(fs, Parent(path))
    /\ Cardinality(Present(fs)) < limit
    /\ fs' = [fs EXCEPT ![path] = entry]
    /\ last' = NoCall
    /\ ref' = NoCall
    /\ UNCHANGED detection_rules

\* The environment removes a file or an empty directory
Remove(path) ==
    /\ fs[path].kind # "absent"
    /\ \A q \in AllPaths : IsUnder(q, path) => fs[q].kind = "absent"
    /\ fs' = [fs EXCEPT ![path] = Absent]
    /\ last' = NoCall
    /\ ref' = NoCall
    /\ UNCHANGED detection_rules

\* scanner.scan_repository(arg)
ScanRepository(s, arg) ==
    /\ last' = Call("scan", s, arg, scan_repository(rules_of(s), fs, arg))
    /\ UNCHANGED <<fs, detection_rules, ref>>

\* The caller keeps the result of the scan it just made
Remember ==
    /\ last.op = "scan"
    /\ ref # last
    /\ ref' = last
    /\ UNCHANGED <<fs, detection_rules, last>>

\* the DetectedTechnology values handed to the constructor of RepoAnalysis
GivenTechnologies ==
    {DetectedTechnology(name, <<>>, confidence) :
        name \in {"python", "go"}, confidence \in {5, CLAMP}}

GivenLanguages ==
    {<<>>} \cup {<<t>> : t \in GivenTechnologies}
    \cup {<<t, u>> : t \in GivenTechnologies, u \in GivenTechnologies}

\* RepoAnalysis(languages=..., ..., repo_path=..., primary_language=...) made by
\* a caller; primary_language is None when the caller gives none
Construct(languages, primary_language) ==
    /\ last' = Call("construct", "", primary_language,
                    Returned(RepoAnalysis(languages, <<>>, <<>>, <<>>, <<>>, <<>>, <<>>,
                                          "/repo", primary_language), <<>>))
    /\ UNCHANGED <<fs, detection_rules, ref>>

\* the paths at which Spec creates entries
MainPaths ==
    (AllPaths \ PipelinePaths)
    \ {<<"b.py">>, <<"c.py">>, <<"d.py">>, <<"a.tf">>, <<"b.tf">>, <<"c.tf">>,
       <<"a.yaml">>, <<"b.yaml">>, <<"c.yaml">>, <<"docker-compose.yml">>,
       <<".dockerignore">>, <<"main_test.go">>, <<"x_test.go">>, <<"pytest.ini">>,
       <<"pkg", "main_test.go">>, <<"pkg", "Dockerfile">>, <<"pkg", "pytest.ini">>,
       <<"pkg", "app.py">>, <<"Jenkinsfile">>, <<"azure-pipelines.yml">>, <<"README.md">>,
       <<".gitignore">>, <<"LICENSE">>}

Next ==
    \/ \E path \in MainPaths : \E entry \in Variants(path) : Create(path, entry, MaxEntries)
    \/ \E path \in MainPaths : Remove(path)
    \/ \E s \in Scanners, arg \in Args : ScanRepository(s, arg)

Spec == Init /\ [][Next]_vars

\* Scans repeated on an unchanged tree, by either scanner
RescanPaths == {<<"app.py">>, <<"Dockerfile">>, <<"pkg">>, <<"pkg", "main.go">>}

NextRescan ==
    \/ \E path \in RescanPaths : \E entry \in Variants(path) : Create(path, entry, MaxEntries)
    \/ \E path \in RescanPaths : Remove(path)
    \/ \E s \in Scanners, arg \in Args : ScanRepository(s, arg)
    \/ Remember

SpecRescan == Init /\ [][NextRescan]_vars

\* Analyses made by a scan and analyses made by the constructor
DataPaths == {<<"setup.py">>, <<"pkg">>, <<"pkg", "main.go">>}

NextData ==
    \/ \E path \in DataPaths : \E entry \in Variants(path) : Create(path, entry, MaxEntries)
    \/ \E s \in Scanners, arg \in Args : ScanRepository(s, arg)
    \/ \E languages \in GivenLanguages, primary_language \in {None, "ruby"} :
           Construct(languages, primary_language)

SpecData == Init /\ [][NextData]_vars

\* Trees of Python files that grow by one file at a time
GrowPaths == {<<"app.py">>, <<"a.py">>, <<"b.py">>, <<"c.py">>, <<"setup.py">>}

NextGrow ==
    \/ \E path \in GrowPaths : \E entry \in Variants(path) :
           Create(path, entry, MaxGrowEntries)
    \/ \E s \in Scanners : ScanRepository(s, <<>>)

SpecGrow == Init /\ [][NextGrow]_vars

\* Trees of container files
ContainerPaths ==
    {<<"Dockerfile">>, <<"docker-compose.yml">>, <<".dockerignore">>, <<"pkg">>,
     <<"pkg", "Dockerfile">>}

NextContainers ==
    \/ \E path \in ContainerPaths : \E entry \in Variants(path) :
           Create(path, entry, MaxEntries)
    \/ \E s \in Scanners, arg \in Args : ScanRepository(s, arg)

SpecContainers == Init /\ [][NextContainers]_vars

\* Trees of Go sources and Go test files
GoPaths ==
    {<<"main_test.go">>, <<"x_test.go">>, <<"pkg">>, <<"pkg", "main.go">>,
     <<"pkg", "main_test.go">>}

NextGo ==
    \/ \E path \in GoPaths : \E entry \in Variants(path) :
           Create(path, entry, MaxGrowEntries)
    \/ \E s \in Scanners, arg \in Args : ScanRepository(s, arg)

SpecGo == Init /\ [][NextGo]_vars

\* Trees of one kind of file each, large enough for a trigger to select more
\* entries than a detector records
CountFamilies ==
    { {<<"app.py">>, <<"a.py">>, <<"b.py">>, <<"c.py">>, <<"d.py">>, <<"setup.py">>},
      {<<"main.tf">>, <<"a.tf">>, <<"b.tf">>, <<"c.tf">>},
      {<<"Chart.yaml">>, <<"a.yaml">>, <<"b.yaml">>, <<"c.yaml">>},
      {<<"pytest.ini">>, <<"pkg">>, <<"pkg", "pytest.ini">>, <<"pkg", "main.go">>},
      {<<"app.py">>, <<"a.py">>, <<"pkg">>, <<"pkg", "app.py">>} }

NextCounts ==
    \/ \E family \in CountFamilies :
           /\ Present(fs) \subseteq family
           /\ \E path \in family : \E entry \in Variants(path) :
                  Create(path, entry, MaxCountEntries)
    \/ \E s \in Scanners : ScanRepository(s, <<>>)

SpecCounts == Init /\ [][NextCounts]_vars

\* the ci_type arguments: the three supported types and one that is not
CiTypes == {"github", "gitlab", "circleci", "travis"}

\* auto_ci.generate_pipeline(arg, ci_type, optimize)
GeneratePipeline(arg, ci_type, optimize_requested) ==
    /\ last' = Call("generate_pipeline", "",
                    [repo_path |-> arg, ci_type |-> ci_type, optimize |-> optimize_requested],
                    generate_pipeline(fs, arg, ci_type, optimize_requested))
    /\ UNCHANGED <<fs, detection_rules, ref>>

\* Pipelines generated for scanned trees.  A call reads nothing that an
\* earlier call left, so one call is followed per tree.
RepoPaths == {<<"app.py">>, <<"Dockerfile">>, <<"Chart.yaml">>, <<"pkg">>, <<"pkg", "main.go">>}

NextPipeline ==
    \/ \E path \in RepoPaths : \E entry \in Variants(path) : Create(path, entry, MaxEntries)
    \/ /\ last = NoCall
       /\ \E arg \in {<<>>, <<"pkg">>}, ci_type \in CiTypes, optimize_requested \in BOOLEAN :
              GeneratePipeline(arg, ci_type, optimize_requested)

SpecPipeline == Init /\ [][NextPipeline]_vars

\* the analyses a caller constructs and hands to the generators and the rules
\* engine
GivenPrimary == {"python", "javascript", "go", "java", "rust", None}

Technologies(names) == [i \in DOMAIN names |-> DetectedTechnology(names[i], <<>>, 8)]

GivenAnalyses ==
    {RepoAnalysis(<<>>, <<>>, Technologies(test_tools), Technologies(build_tools),
                  Technologies(containers), <<>>, Technologies(package_managers),
                  "/repo", primary_language) :
        primary_language \in GivenPrimary,
        test_tools \in {<<>>, <<"pytest">>},
        build_tools \in {<<>>, <<"poetry">>, <<"maven">>, <<"gradle">>},
        containers \in {<<>>, <<"docker">>, <<"docker-compose">>, <<"kubernetes", "docker">>},
        package_managers \in {<<>>, <<"yarn">>, <<"pnpm">>}}

\* A caller constructs an analysis and keeps it
Hold(analysis) ==
    /\ ref' = Call("construct", "", analysis.primary_language, Returned(analysis, <<>>))
    /\ last' = NoCall
    /\ UNCHANGED <<fs, detection_rules>>

\* A variant of generated_analysis: the generator puts a language in place
\* when the analysis has none
generated_analysis_defaulted(ci_type, analysis) ==
    IF analysis.primary_language = None
    THEN [analysis EXCEPT !.primary_language = "generic"]
    ELSE analysis

\* the analysis object after generate(analysis, options) has run: generate
\* and the job builders it calls assign to no field of it
generated_analysis(ci_type, analysis) == analysis

\* the paths generate(analysis, options) reads: the generators call nothing
\* but the dict and list operations and yaml.dump
generated_reads(ci_type, analysis) == {}

\* generator.generate(analysis, options) on the analysis the caller holds,
\* with the options of the rules engine
Generate(ci_type) ==
    /\ ref.op = "construct"
    /\ LET analysis == ref.result.analysis
       IN  /\ last' = Call("generate", "", [ci_type |-> ci_type, analysis |-> analysis],
                           [outcome |-> "returned",
                            pipeline_content |->
                                generate(ci_type, analysis,
                                         apply_optimizations(analysis, ci_type)),
                            read |-> generated_reads(ci_type, analysis)])
           /\ ref' = [ref EXCEPT !.result.analysis = generated_analysis(ci_type, analysis)]
    /\ UNCHANGED <<fs, detection_rules>>

NextGenerators ==
    \/ \E analysis \in GivenAnalyses : Hold(analysis)
    \/ \E ci_type \in Range(generators) : Generate(ci_type)

SpecGenerators == Init /\ [][NextGenerators]_vars

\* the pipeline texts handed to save_pipeline
SaveContents == {"name: CI\n", "stages:\r\n- test\r\n"}

\* the output_path arguments of save_pipeline
OutputPaths == {NoPath, <<".">>, <<"pkg">>}

PipelineFiles == {p \in PipelinePaths : p[Len(p)] \in {"ci.yml", ".gitlab-ci.yml", "config.yml"}}

\* auto_ci.save_pipeline(pipeline_content, ci_type, output_path); the call
\* record keeps what stood at the file's place before the call
SavePipeline(pipeline_content, ci_type, output_path) ==
    LET saved == save_pipeline(fs, pipeline_content, ci_type, output_path)
        place == IF ci_type \in DOMAIN ci_file_paths
                 THEN resolve((IF output_path = NoPath THEN <<".">> ELSE output_path)
                              \o ci_file_paths[ci_type])
                 ELSE <<>>
    IN  /\ \/ is_file(fs, place)
           \/ Cardinality({p \in PipelineFiles : fs[p].kind = "file"}) < MaxSaved
        /\ fs' = saved.tree
        /\ last' = Call("save", "",
                        [pipeline_content |-> pipeline_content, ci_type |-> ci_type,
                         output_path |-> output_path],
                        [outcome |-> saved.outcome, error |-> saved.error,
                         file_path |-> saved.file_path,
                         before |-> IF place = <<>> THEN Absent ELSE fs[place]])
        /\ UNCHANGED <<detection_rules, ref>>

\* Pipelines saved below /repo and /repo/pkg, with files and directories that
\* stand in the way
SavePaths ==
    {<<"pkg">>, <<".github">>, <<".github", "workflows">>, <<".gitlab-ci.yml">>,
     <<".circleci">>, <<".circleci", "config.yml">>, <<"pkg", ".circleci">>}

NextSave ==
    \/ \E path \in SavePaths : \E entry \in Variants(path) : Create(path, entry, MaxEntries)
    \/ \E pipeline_content \in SaveContents, ci_type \in CiTypes, output_path \in OutputPaths :
           SavePipeline(pipeline_content, ci_type, output_path)

SpecSave == Init /\ [][NextSave]_vars

\* The caller keeps the pipeline that generate_pipeline just returned
RememberPipeline ==
    /\ last.op = "generate_pipeline"
    /\ last.result.outcome = "returned"
    /\ ref # last
    /\ ref' = last
    /\ UNCHANGED <<fs, detection_rules, last>>

\* auto_ci.save_pipeline(pipeline_content, ci_type, repo_path) with the
\* pipeline the caller keeps, into the repository it was generated for
SaveGenerated ==
    /\ last.op = "generate_pipeline"
    /\ ref.op = "generate_pipeline"
    /\ ref = last
    /\ SavePipeline(ref.result.pipeline_content, ref.arg.ci_type, ref.arg.repo_path)

\* auto_ci.audit_repository(arg)
AuditRepository(arg) ==
    /\ last' = Call("audit", "", arg, audit_repository(fs, arg))
    /\ UNCHANGED <<fs, detection_rules, ref>>

\* Repositories for which a pipeline is generated, saved into the repository,
\* and which are then scanned and audited again.  A pipeline file may stand
\* in the repository beforehand, and may be a manifest.
RoundTripPaths ==
    {<<"app.py">>, <<"Jenkinsfile">>, <<"pkg">>, <<".gitlab-ci.yml">>, <<".github">>,
     <<".github", "workflows">>}

NextRoundTrip ==
    \/ \E path \in RoundTripPaths : \E entry \in Variants(path) :
           Create(path, entry, MaxEntries)
    \/ Create(<<".gitlab-ci.yml">>, File(ManifestText, "ok"), MaxEntries)
    \/ /\ last = NoCall
       /\ \E ci_type \in CiTypes, optimize_requested \in BOOLEAN :
              GeneratePipeline(<<>>, ci_type, optimize_requested)
    \/ RememberPipeline
    \/ SaveGenerated
    \/ /\ last.op = "save"
       /\ GeneratePipeline(ref.arg.repo_path, ref.arg.ci_type, ref.arg.optimize)
    \/ /\ last = NoCall \/ last.op = "save"
       /\ \E arg \in {<<>>, <<"pkg">>} : AuditRepository(arg)

SpecRoundTrip == Init /\ [][NextRoundTrip]_vars

\* The containers and package managers of the analyses handed to the rules
\* engine: lists that name the same technologies with other confidences,
\* files and orders, and lists that name others
GivenMembership ==
    {[containers |-> <<>>, package_managers |-> <<>>],
     [containers |-> <<>>,
      package_managers |-> <<DetectedTechnology("Poetry", <<>>, 8)>>],
     [containers |-> <<DetectedTechnology("docker", <<"Dockerfile">>, 8)>>,
      package_managers |-> <<DetectedTechnology("pip", <<>>, 8)>>],
     [containers |-> <<DetectedTechnology("kubernetes", <<>>, CLAMP),
                       DetectedTechnology("docker", <<"Dockerfile", "pkg/Dockerfile">>, CLAMP)>>,
      package_managers |-> <<DetectedTechnology("pip", <<"requirements.txt">>, CLAMP),
                             DetectedTechnology("poetry", <<>>, 8)>>],
     [containers |-> <<DetectedTechnology("docker", <<"Dockerfile">>, 8),
                       DetectedTechnology("kubernetes", <<"Chart.yaml">>, 8)>>,
      package_managers |-> <<DetectedTechnology("poetry", <<"pyproject.toml">>, 8),
                             DetectedTechnology("pip", <<>>, 8)>>]}

OptionAnalyses ==
    {RepoAnalysis(<<>>, <<>>, <<>>, build_tools, given.containers, <<>>,
                  given.package_managers, "/repo", primary_language) :
        primary_language \in {"python", "go", None},
        build_tools \in {<<>>, <<DetectedTechnology("poetry", <<"pyproject.toml">>, 8)>>},
        given \in GivenMembership}

\* rules_engine.apply_optimizations(analysis, generator_type)
ApplyOptimizations(analysis, generator_type) ==
    /\ last' = Call("apply_optimizations", "",
                    [analysis |-> analysis, generator_type |-> generator_type],
                    apply_optimizations(analysis, generator_type))
    /\ UNCHANGED <<fs, detection_rules, ref>>

\* The caller keeps the options it just got
RememberOptions ==
    /\ last.op = "apply_optimizations"
    /\ ref # last
    /\ ref' = last
    /\ UNCHANGED <<fs, detection_rules, last>>

NextOptions ==
    \/ \E analysis \in OptionAnalyses, generator_type \in {"github", "travis"} :
           ApplyOptimizations(analysis, generator_type)
    \/ RememberOptions

SpecOptions == Init /\ [][NextOptions]_vars

-----------------------------------------------------------------------------
(* What the properties speak of *)

\* the last call was a scan that returned an analysis
ScanReturned == last.op = "scan" /\ last.result.outcome = "returned"

\* the rules of a category, in the order of their declaration
RulesOf(category) ==
    IF category = "package_managers" THEN pm_files ELSE load_detection_rules[category]

NamesIn(technologies) == {technologies[i].name : i \in DOMAIN technologies}

\* the place of a technology's rule in the declaration of its category
CatalogIndex(category, name) ==
    CHOOSE i \in DOMAIN RulesOf(category) : RulesOf(category)[i].name = name

\* the entry of that name in a list of technologies
Entry(technologies, name) ==
    technologies[CHOOSE i \in DOMAIN technologies : technologies[i].name = name]

\* An entry below repo_path gives evidence for a rule: a file trigger selects
\* it, or it is a regular file whose name a filename pattern is found in, or
\* it is a readable file whose text a content pattern is found in.
GivesEvidence(tree, repo_path, rules, path) ==
    /\ tree[path].kind # "absent"
    /\ IsUnder(path, repo_path)
    /\ \/ \E i \in DOMAIN rules.files :
              glob_match(rules.files[i], NameOf(path), tree[path].kind)
       \/ /\ tree[path].kind = "file"
          /\ \E i \in DOMAIN rules.patterns : re_search_name(rules.patterns[i], NameOf(path))
       \/ /\ tree[path].kind = "file"
          /\ tree[path].mode = "ok"
          /\ \E i \in DOMAIN rules.content_patterns :
                 re_search_content(rules.content_patterns[i], tree[path].text)

NoEvidence(tree, repo_path, rules) ==
    \A path \in AllPaths : ~GivesEvidence(tree, repo_path, rules, path)

-----------------------------------------------------------------------------
(* C1 *)

\* C1: every technology of every category list that scan_repository returns
\* has a confidence c with 0.0 < c <= 1.0.
C1_ConfidenceBound ==
    ScanReturned =>
        \A category \in Range(Categories) :
            \A t \in Range(last.result.analysis[category]) :
                0 < t.confidence /\ t.confidence <= CLAMP

\* A scan returned python, whose accumulated score exceeds 1.0, next to a
\* technology of smaller confidence.
C1_Witness ==
    /\ ScanReturned
    /\ resolve(last.arg) = <<>>
    /\ language_evidence(fs, <<>>, LanguageRules[1]).confidence > CLAMP
    /\ "python" \in NamesIn(last.result.analysis.languages)
    /\ \E category \in Range(Categories) :
           \E t \in Range(last.result.analysis[category]) : t.confidence < CLAMP

-----------------------------------------------------------------------------
(* C2 *)

\* C2: in a RepoAnalysis returned by scan_repository, or constructed without
\* an explicit primary_language, primary_language is None exactly when
\* languages is empty, and otherwise names an entry of languages whose
\* confidence is maximal.
C2_PrimaryLanguageConsistent ==
    (ScanReturned \/ (last.op = "construct" /\ last.arg = None)) =>
        LET analysis == last.result.analysis
        IN  /\ analysis.primary_language = None <=> analysis.languages = <<>>
            /\ analysis.languages # <<>> =>
                   \E i \in DOMAIN analysis.languages :
                       /\ analysis.languages[i].name = analysis.primary_language
                       /\ \A j \in DOMAIN analysis.languages :
                              analysis.languages[j].confidence
                                  <= analysis.languages[i].confidence

\* An analysis was constructed, without a primary_language, from two
\* languages of which the second has the greater confidence.
C2_Witness ==
    /\ last.op = "construct"
    /\ last.arg = None
    /\ Len(last.result.analysis.languages) = 2
    /\ last.result.analysis.languages[1].confidence
           < last.result.analysis.languages[2].confidence
    /\ last.result.analysis.languages[1].name # last.result.analysis.languages[2].name
    /\ last.result.analysis.primary_language = last.result.analysis.languages[2].name

-----------------------------------------------------------------------------
(* C3 *)

\* C3 as stated: a rule without evidence anywhere in the tree has its
\* technology in no category list of the scan result.
C3_AbsentFromEveryList ==
    ScanReturned =>
        \A category \in Range(Categories) :
            \A rules \in Range(RulesOf(category)) :
                NoEvidence(fs, resolve(last.arg), rules) =>
                    \A other \in Range(Categories) :
                        rules.name \notin NamesIn(last.result.analysis[other])

\* C3, amended: a rule without evidence anywhere in the tree (no file or
\* directory selected by a file trigger, no file name matched by a filename
\* pattern, no text matched by a content pattern) has its technology absent
\* from the list of its own category; a scan of an empty directory returns
\* seven empty lists and primary_language None.
C3_AbsentFromOwnList ==
    ScanReturned =>
        /\ \A category \in Range(Categories) :
               \A rules \in Range(RulesOf(category)) :
                   NoEvidence(fs, resolve(last.arg), rules) =>
                       rules.name \notin NamesIn(last.result.analysis[category])
        /\ (\A path \in AllPaths : ~(fs[path].kind # "absent"
                                      /\ IsUnder(path, resolve(last.arg)))) =>
               /\ \A category \in Range(Categories) :
                      last.result.analysis[category] = <<>>
               /\ last.result.analysis.primary_language = None

\* A scan of a tree holding gradle.properties returned: the build tool rule
\* gradle has no evidence and the build tools do not list it, while the
\* package managers list a gradle of their own.
C3_Witness ==
    /\ ScanReturned
    /\ resolve(last.arg) = <<>>
    /\ NoEvidence(fs, <<>>, BuildToolRules[5])
    /\ "gradle" \notin NamesIn(last.result.analysis.build_tools)
    /\ "gradle" \in NamesIn(last.result.analysis.package_managers)
    /\ last.result.analysis.languages # <<>>

-----------------------------------------------------------------------------
(* C4 *)

\* C4: every category list returned by scan_repository is in order of
\* non-increasing confidence, and entries of equal confidence are in the
\* order in which the catalog declares their rules.
C4_SortedStable ==
    ScanReturned =>
        \A category \in Range(Categories) :
            LET list == last.result.analysis[category]
            IN  \A i \in DOMAIN list : \A j \in DOMAIN list :
                    i < j =>
                        /\ list[i].confidence >= list[j].confidence
                        /\ list[i].confidence = list[j].confidence =>
                               CatalogIndex(category, list[i].name)
                                   < CatalogIndex(category, list[j].name)

\* A scan returned a list in which two entries of equal confidence follow an
\* entry of greater confidence that the catalog declares after both.
C4_Witness ==
    /\ ScanReturned
    /\ \E category \in Range(Categories) :
           LET list == last.result.analysis[category]
           IN  \E i \in DOMAIN list : \E j \in DOMAIN list : \E k \in DOMAIN list :
                   /\ i < j /\ j < k
                   /\ list[i].confidence > list[j].confidence
                   /\ list[j].confidence = list[k].confidence
                   /\ CatalogIndex(category, list[i].name)
                          > CatalogIndex(category, list[k].name)

-----------------------------------------------------------------------------
(* C5 *)

-----------------------------------------------------------------------------
(* C6 *)

\* C6 as stated: when a file that gives evidence for the rule of a detected
\* technology is added to the tree, the technology stays in its category list
\* and its confidence does not decrease.
C6_MonotonicEvidence ==
    [][\A path \in AllPaths :
         (/\ fs[path].kind = "absent"
          /\ fs'[path].kind = "file"
          /\ \A q \in AllPaths \ {path} : fs'[q] = fs[q]) =>
             LET before == scan_repository(rules_of("s1"), fs, <<>>)
                 after == scan_repository(rules_of("s1"), fs', <<>>)
             IN  (before.outcome = "returned" /\ after.outcome = "returned") =>
                     \A category \in Range(Categories) :
                         \A rules \in Range(RulesOf(category)) :
                             (/\ rules.name \in NamesIn(before.analysis[category])
                              /\ GivesEvidence(fs', <<>>, rules, path)) =>
                                 /\ rules.name \in NamesIn(after.analysis[category])
                                 /\ Entry(after.analysis[category], rules.name).confidence
                                        >= Entry(before.analysis[category],
                                                 rules.name).confidence
      ]_vars

-----------------------------------------------------------------------------
(* C7 *)

\* C7: scan_repository on a path that does not exist raises before any
\* detector is invoked and hands no analysis to the caller.
C7_MissingPathRaisesFirst ==
    (last.op = "scan" /\ ~exists(fs, resolve(last.arg))) =>
        /\ last.result.outcome = "raised"
        /\ last.result.error = "ValueError"
        /\ last.result.invoked = <<>>
        /\ last.result.analysis = NoAnalysis

\* A scan of the missing path /repo/pkg was made in a tree that holds files.
C7_Witness ==
    /\ last.op = "scan"
    /\ last.arg = <<"pkg">>
    /\ ~exists(fs, <<"pkg">>)
    /\ Present(fs) # {}
    /\ last.result.outcome = "raised"

-----------------------------------------------------------------------------
(* C8 *)

\* C8 as stated: scan_repository on a path that exists and is no directory
\* raises instead of returning an analysis.
C8_NonDirectoryRaises ==
    (/\ last.op = "scan"
     /\ exists(fs, resolve(last.arg))
     /\ ~is_dir(fs, resolve(last.arg))) =>
        last.result.outcome = "raised"

-----------------------------------------------------------------------------
(* C9 *)

\* C9 as stated: no files list of a returned technology holds a path twice.
C9_FilesWithoutDuplicates ==
    ScanReturned =>
        \A category \in Range(Categories) :
            \A t \in Range(last.result.analysis[category]) :
                \A i \in DOMAIN t.files : \A j \in DOMAIN t.files :
                    t.files[i] = t.files[j] => i = j

-----------------------------------------------------------------------------
(* C10 *)

\* the tree in which every file that cannot be read or decoded is readable
\* text that no content pattern matches
MadeReadable(tree) ==
    [p \in AllPaths |->
        IF tree[p].kind = "file" /\ tree[p].mode # "ok"
        THEN File(PlainText, "ok") ELSE tree[p]]

\* C10: a file that cannot be read or decoded is skipped by the content
\* scan and counted by the file triggers and filename patterns: the outcome
\* of the scan is the outcome for the tree in which that file is readable text
\* matching no content pattern.
C10_UnreadableSkipped ==
    last.op = "scan" =>
        last.result = scan_repository(rules_of(last.scanner), MadeReadable(fs), last.arg)

\* A scan returned for a tree in which app.py cannot be read: python counts
\* app.py, and flask is found in a.py, read after app.py was skipped.
C10_Witness ==
    /\ ScanReturned
    /\ resolve(last.arg) = <<>>
    /\ fs[<<"app.py">>].kind = "file"
    /\ fs[<<"app.py">>].mode = "denied"
    /\ re_search_content(FrameworkRules[2].content_patterns[1], fs[<<"app.py">>].text)
    /\ ~any_content_match(FrameworkRules[2].content_patterns, PlainText)
    /\ "app.py" \in Range(Entry(last.result.analysis.languages, "python").files)
    /\ "flask" \in NamesIn(last.result.analysis.frameworks)
    /\ Entry(last.result.analysis.frameworks, "flask").files = <<"a.py">>

-----------------------------------------------------------------------------
(* C11 *)

\* the last call was a scan of a directory
ScanOfDirectory == last.op = "scan" /\ is_dir(fs, resolve(last.arg))

\* some entry of the scanned tree is selected by a file trigger of the
\* language rule, or is a file named as one of its filename patterns
LanguageEvidence(rules) ==
    \E path \in AllPaths : GivesEvidence(fs, resolve(last.arg), rules, path)

\* the one language rule the scanned tree gives evidence for
OnlyLanguage(rules) ==
    /\ LanguageEvidence(rules)
    /\ \A other \in Range(LanguageRules) :
           other.name # rules.name => ~LanguageEvidence(other)

\* C11 as stated: when the scanned tree gives evidence for one language L and
\* for no other language, scan_repository returns an analysis whose languages
\* contain L and whose primary_language is L.
C11_OnlyLanguageIsPrimary ==
    ScanOfDirectory =>
        \A rules \in Range(LanguageRules) :
            OnlyLanguage(rules) =>
                /\ last.result.outcome = "returned"
                /\ rules.name \in NamesIn(last.result.analysis.languages)
                /\ last.result.analysis.primary_language = rules.name

-----------------------------------------------------------------------------
(* C12 *)

\* the rule of that name in a category
RuleNamed(category, name) == RulesOf(category)[CatalogIndex(category, name)]

\* the file triggers of a rule that select at least one entry of the scanned
\* tree, each position of the rule's trigger list counted once
MatchedTriggers(rules) ==
    {i \in DOMAIN rules.files :
        \E path \in AllPaths :
            /\ fs[path].kind # "absent"
            /\ IsUnder(path, resolve(last.arg))
            /\ glob_match(rules.files[i], NameOf(path), fs[path].kind)}

\* C12: when a scan returns, docker is in containers exactly when one of its
\* triggers selects an entry, and its confidence is min(1.0, 0.8 x k), k the
\* number of docker triggers that select at least one entry, however many
\* entries a trigger selects.
C12_DockerConfidence ==
    ScanReturned =>
        LET k == Cardinality(MatchedTriggers(RuleNamed("containers", "docker")))
            containers == last.result.analysis.containers
        IN  /\ "docker" \in NamesIn(containers) <=> k > 0
            /\ k > 0 => Entry(containers, "docker").confidence
                            = Min(CLAMP, CONTAINER_FILE_INC * k)

\* A scan returned docker at 0.8 for a tree with two files named Dockerfile
\* and no other docker trigger matched.
C12_Witness ==
    /\ ScanReturned
    /\ resolve(last.arg) = <<>>
    /\ fs[<<"Dockerfile">>].kind = "file"
    /\ fs[<<"pkg", "Dockerfile">>].kind = "file"
    /\ Cardinality(MatchedTriggers(RuleNamed("containers", "docker"))) = 1
    /\ Entry(last.result.analysis.containers, "docker").confidence = CONTAINER_FILE_INC
    /\ Len(Entry(last.result.analysis.containers, "docker").files) = 2

-----------------------------------------------------------------------------
(* C13 *)

\* the regular files of the scanned tree whose name ends in _test.go
GoTestFiles ==
    {path \in AllPaths :
        /\ fs[path].kind = "file"
        /\ IsUnder(path, resolve(last.arg))
        /\ EndsWith(NameOf(path), "_test.go")}

\* C13: when a scan returns, "go test" is in test_tools exactly when the
\* scanned tree holds a regular file named ..._test.go, and with n such
\* files its confidence is min(1.0, 0.4 x n).
C13_GoTestConfidence ==
    ScanReturned =>
        LET n == Cardinality(GoTestFiles)
            test_tools == last.result.analysis.test_tools
        IN  /\ "go test" \in NamesIn(test_tools) <=> n > 0
            /\ n > 0 => Entry(test_tools, "go test").confidence
                            = Min(CLAMP, TEST_PATTERN_INC * n)

\* A scan returned "go test" at 0.8 for a tree with two test files, one of
\* them in a subdirectory, next to a Go file that is no test.
C13_Witness ==
    /\ ScanReturned
    /\ resolve(last.arg) = <<>>
    /\ GoTestFiles = {<<"main_test.go">>, <<"pkg", "main_test.go">>}
    /\ fs[<<"pkg", "main.go">>].kind = "file"
    /\ Entry(last.result.analysis.test_tools, "go test").confidence = 2 * TEST_PATTERN_INC
    /\ Entry(last.result.analysis.test_tools, "go test").files
           = <<"main_test.go", "pkg/main_test.go">>
    /\ last.result.analysis.primary_language = "go"

-----------------------------------------------------------------------------
(* C14 *)

SupportedTypes == {"github", "gitlab", "circleci"}

\* the last call was generate_pipeline with a ci_type that is not supported
UnsupportedRequest ==
    last.op = "generate_pipeline" /\ last.arg.ci_type \notin SupportedTypes

ReturnsNothing ==
    /\ last.result.outcome = "raised"
    /\ last.result.pipeline_content = None
    /\ last.result.analysis = NoAnalysis

\* the message names every supported type
ListsSupported(message) ==
    \A ci_type \in SupportedTypes : Occurrences(message, "'" \o ci_type \o "'") # {}

\* the scan that generate_pipeline makes first
ScanOfRequest == scan_repository(load_detection_rules, fs, last.arg.repo_path)

\* C14, as stated: generate_pipeline called with a ci_type other than github,
\* gitlab and circleci fails with an error whose message lists the supported
\* types, and returns no pipeline text and no analysis.
C14_UnsupportedTypeListed ==
    UnsupportedRequest => (ReturnsNothing /\ ListsSupported(last.result.message))

\* C14, amended: generate_pipeline called with an unsupported ci_type always
\* fails and returns no pipeline text and no analysis.  When the scan of
\* repo_path returns, the error is the ValueError whose message lists the
\* supported types; when the scan raises (repo_path does not exist, or a
\* content scan reads a directory), the error is the scan's and its message
\* does not list them.
C14_UnsupportedTypeFails ==
    UnsupportedRequest =>
        /\ ReturnsNothing
        /\ ScanOfRequest.outcome = "returned" =>
               /\ last.result.error = "ValueError"
               /\ last.result.message =
                      "Unsupported CI type: " \o last.arg.ci_type
                          \o ". Supported: ['github', 'gitlab', 'circleci']"
               /\ ListsSupported(last.result.message)
        /\ ScanOfRequest.outcome = "raised" =>
               /\ last.result.error = ScanOfRequest.error
               /\ ~ListsSupported(last.result.message)

C14_Witness ==
    /\ UnsupportedRequest
    /\ Present(fs) # {}
    /\ last.result.message =
           "Unsupported CI type: travis. Supported: ['github', 'gitlab', 'circleci']"

\* an unsupported ci_type together with a repo_path that does not exist
C14_MissingPathWitness ==
    /\ UnsupportedRequest
    /\ ~exists(fs, resolve(last.arg.repo_path))
    /\ last.result.message = "Repository path does not exist: /repo/pkg"

-----------------------------------------------------------------------------
(* Reading a pipeline text *)

\* text.splitlines()
yaml_lines(text) ==
    LET ends == Occurrences(text, "\n")
        nth(k) == CHOOSE i \in ends : Cardinality({j \in ends : j < i}) = k - 1
    IN  [k \in 1..Cardinality(ends) |->
            SubSeq(text, IF k = 1 THEN 1 ELSE nth(k - 1) + 1, nth(k) - 1)]

line_indent(line) ==
    CHOOSE n \in 0..Len(line) :
        /\ SubSeq(line, 1, n) = Spaces(n)
        /\ n < Len(line) => SubSeq(line, n + 1, n + 1) # " "

line_body(line) == SubSeq(line, line_indent(line) + 1, Len(line))

\* the line is an item of a list
is_item(line) == StartsWith(line_body(line), "- ")

unquoted(s) ==
    IF Len(s) >= 2 /\ StartsWith(s, "'") /\ EndsWith(s, "'")
    THEN SubSeq(s, 2, Len(s) - 1) ELSE s

\* the key of a line "key:" or "key: value"; "" when the line has none
line_key(line) ==
    LET body == line_body(line)
        colons == Occurrences(body, ": ") \cup (IF EndsWith(body, ":") THEN {Len(body)} ELSE {})
        at == CHOOSE i \in colons : \A j \in colons : i <= j
    IN  IF is_item(line) \/ colons = {} THEN "" ELSE unquoted(SubSeq(body, 1, at - 1))

\* what follows "key: " on the line of a key
line_value(line) ==
    LET body == line_body(line)
        colons == Occurrences(body, ": ")
        at == CHOOSE i \in colons : \A j \in colons : i <= j
    IN  IF colons = {} THEN "" ELSE SubSeq(body, at + 2, Len(body))

\* The lines that make up the value of the key on line i (0: the document):
\* those after it, up to the next line that is not indented deeper and is no
\* item of a list placed at the key's own indentation.
value_lines(lines, i) ==
    IF i = 0 THEN DOMAIN lines
    ELSE LET inside(j) == \/ line_indent(lines[j]) > line_indent(lines[i])
                          \/ /\ line_indent(lines[j]) = line_indent(lines[i])
                             /\ is_item(lines[j])
         IN  {j \in (i + 1)..Len(lines) : \A k \in (i + 1)..j : inside(k)}

\* the lines of the entries of that value: the keys of a mapping or the items
\* of a list
entry_lines(lines, i) ==
    LET inner == value_lines(lines, i)
    IN  {j \in inner : \A k \in inner : line_indent(lines[j]) <= line_indent(lines[k])}

\* the line of the key named key in the mapping of line i, 0 when there is none
key_line(lines, i, key) ==
    LET found == {j \in entry_lines(lines, i) : line_key(lines[j]) = key}
    IN  IF found = {} THEN 0 ELSE CHOOSE j \in found : TRUE

\* the keys of the mapping that is the value of line i
mapping_keys(lines, i) ==
    {line_key(lines[j]) : j \in {k \in entry_lines(lines, i) : ~is_item(lines[k])}}

\* the items of the list that is the value of line i, one per line
list_items(lines, i) ==
    LET at == {k \in entry_lines(lines, i) : is_item(lines[k])}
    IN  [j \in at |-> SubSeq(line_body(lines[j]), 3, Len(line_body(lines[j])))]

-----------------------------------------------------------------------------
(* C15 *)

\* the last call was generate of the generator of that type
Generated(ci_type) == last.op = "generate" /\ last.arg.ci_type = ci_type

\* the names of the jobs of a GitHub Actions workflow
github_jobs(text) ==
    LET lines == yaml_lines(text) IN mapping_keys(lines, key_line(lines, 0, "jobs"))

LanguageJobs(primary_language) ==
    CASE primary_language = "python" -> {"lint", "test"}
      [] primary_language \in {"javascript", "go"} -> {"lint-and-test"}
      [] primary_language = "java" -> {"test"}
      [] OTHER -> {"build"}

\* C15: the jobs of the GitHub Actions workflow other than the docker job are
\* lint and test for python, lint-and-test for javascript and go, test for
\* java and build for every other primary_language, None included; they are
\* never none.
C15_JobsFromPrimaryLanguage ==
    Generated("github") =>
        LET jobs == github_jobs(last.result.pipeline_content) \ {"docker"}
        IN  /\ jobs = LanguageJobs(last.arg.analysis.primary_language)
            /\ jobs # {}

C15_Witness ==
    /\ Generated("github")
    /\ last.arg.analysis.primary_language = None
    /\ has_technology(last.arg.analysis.containers, "docker")
    /\ has_technology(last.arg.analysis.build_tools, "maven")
    /\ github_jobs(last.result.pipeline_content) = {"build", "docker"}

-----------------------------------------------------------------------------
(* C16 *)

\* the names of the jobs of a GitLab CI pipeline: its top-level keys other
\* than the three the generator sets for the pipeline as a whole
gitlab_jobs(text) ==
    mapping_keys(yaml_lines(text), 0) \ {"stages", "variables", "cache"}

\* C16: the GitHub Actions pipeline has a job named docker, and the GitLab CI
\* pipeline a job named docker-build, exactly when an entry named docker is
\* in analysis.containers, whatever primary_language and the other categories
\* are.
C16_DockerJobIffDockerContainer ==
    LET docker == "docker" \in NamesIn(last.arg.analysis.containers)
    IN  /\ Generated("github") =>
               ("docker" \in github_jobs(last.result.pipeline_content) <=> docker)
        /\ Generated("gitlab") =>
               ("docker-build" \in gitlab_jobs(last.result.pipeline_content) <=> docker)

C16_Witness ==
    /\ Generated("gitlab")
    /\ NamesIn(last.arg.analysis.containers) = {"kubernetes", "docker"}
    /\ last.arg.analysis.primary_language = "rust"
    /\ gitlab_jobs(last.result.pipeline_content) = {"docker-build"}

-----------------------------------------------------------------------------
(* C17 *)

\* C17: the CircleCI configuration has version 2.1, a jobs section and a
\* workflows section, and the jobs listed by the workflow build_and_test are
\* exactly the keys of the jobs section, each listed once.
C17_WorkflowSchedulesDefinedJobs ==
    Generated("circleci") =>
        LET lines == yaml_lines(last.result.pipeline_content)
            version == key_line(lines, 0, "version")
            jobs == key_line(lines, 0, "jobs")
            workflows == key_line(lines, 0, "workflows")
            build_and_test == key_line(lines, workflows, "build_and_test")
            scheduled == list_items(lines, key_line(lines, build_and_test, "jobs"))
        IN  /\ version # 0 /\ jobs # 0 /\ workflows # 0 /\ build_and_test # 0
            /\ line_value(lines[version]) = "2.1"
            /\ key_line(lines, build_and_test, "jobs") # 0
            /\ Range(scheduled) = mapping_keys(lines, jobs)
            /\ Cardinality(DOMAIN scheduled) = Cardinality(mapping_keys(lines, jobs))

C17_Witness ==
    /\ Generated("circleci")
    /\ last.arg.analysis.primary_language = "javascript"
    /\ LET lines == yaml_lines(last.result.pipeline_content)
       IN  /\ mapping_keys(lines, key_line(lines, 0, "jobs")) = {"test"}
           /\ line_value(lines[key_line(lines, 0, "version")]) = "2.1"

\* a configuration without jobs: the jobs section and the job list are empty
C17_EmptyWitness ==
    /\ Generated("circleci")
    /\ last.arg.analysis.primary_language = "java"
    /\ LET lines == yaml_lines(last.result.pipeline_content)
       IN  /\ line_value(lines[key_line(lines, 0, "jobs")]) = "{}"
           /\ mapping_keys(lines, key_line(lines, 0, "jobs")) = {}

-----------------------------------------------------------------------------
(* C18 *)

\* the last call was save_pipeline with a supported ci_type
SaveRequest == last.op = "save" /\ last.arg.ci_type \in SupportedTypes

\* the place of the file as documented: the fixed location of the type
\* below the directory given
SavePlace ==
    resolve((IF last.arg.output_path = NoPath THEN <<".">> ELSE last.arg.output_path)
            \o (CASE last.arg.ci_type = "github" -> <<".github", "workflows", "ci.yml">>
                  [] last.arg.ci_type = "gitlab" -> <<".gitlab-ci.yml">>
                  [] last.arg.ci_type = "circleci" -> <<".circleci", "config.yml">>))

\* every directory on the way to the file exists
ParentsMade == \A n \in 1..(Len(SavePlace) - 1) : is_dir(fs, SubSeq(SavePlace, 1, n))

Obstructed(tree) ==
    \/ \E n \in 1..(Len(SavePlace) - 1) : is_file(tree, SubSeq(SavePlace, 1, n))
    \/ is_dir(tree, SavePlace)

C18_CarriageReturnWitness ==
    /\ SaveRequest
    /\ last.result.outcome = "returned"
    /\ fs[SavePlace].text = "stages:\r\n- test\r\n"
    /\ read_text(fs, SavePlace).text = "stages:\n- test\n"

\* a regular file named .github stands in the way
C18_ObstructedWitness ==
    /\ SaveRequest
    /\ last.result.outcome = "raised"
    /\ last.result.error = "NotADirectoryError"
    /\ is_file(fs, <<".github">>)

-----------------------------------------------------------------------------
(* C19 *)

-----------------------------------------------------------------------------
(* C20 *)

\* two calls of apply_optimizations, the one kept and the last one
TwoOptions == ref.op = "apply_optimizations" /\ last.op = "apply_optimizations"

\* the two analyses have the same primary_language and name the same
\* package managers and the same containers
SameMembership(a, b) ==
    /\ a.primary_language = b.primary_language
    /\ NamesIn(a.package_managers) = NamesIn(b.package_managers)
    /\ NamesIn(a.containers) = NamesIn(b.containers)

\* C20: two analyses with the same primary_language and the same sets of
\* names in package_managers and in containers get equal options from
\* apply_optimizations, whatever the confidences, the files, the other
\* categories and the generator_type are.
C20_OptionsFromMembership ==
    (TwoOptions /\ SameMembership(ref.arg.analysis, last.arg.analysis))
        => ref.result = last.result

C20_Witness ==
    /\ TwoOptions
    /\ SameMembership(ref.arg.analysis, last.arg.analysis)
    /\ ref.arg.analysis.package_managers # last.arg.analysis.package_managers
    /\ ref.arg.analysis.containers # last.arg.analysis.containers
    /\ ref.arg.analysis.build_tools # last.arg.analysis.build_tools
    /\ ref.arg.generator_type # last.arg.generator_type
    /\ last.arg.analysis.primary_language = "python"
    /\ DOMAIN last.result.caching = {"pip", "poetry"}
    /\ last.result.caching["poetry"] = "~/.cache/pypoetry"
    /\ DOMAIN last.result.deployment = {"docker", "kubernetes"}
    /\ last.result.security_scans = <<"secret_scanning", "safety", "bandit">>

\* the name of a package manager is looked up in lower case and kept as given
C20_LowerWitness ==
    /\ last.op = "apply_optimizations"
    /\ last.arg.analysis.primary_language = "python"
    /\ DOMAIN last.result.caching = {"Poetry"}
    /\ last.result.caching["Poetry"] = "~/.cache/pypoetry"

-----------------------------------------------------------------------------
(* C21 *)

\* the entries of the scanned tree that a file trigger selects
Selected(file_pattern) ==
    {path \in AllPaths :
        /\ fs[path].kind # "absent"
        /\ IsUnder(path, resolve(last.arg))
        /\ glob_match(file_pattern, NameOf(path), fs[path].kind)}

\* the regular files of the scanned tree in whose name a filename pattern is found
Named(pattern) ==
    {path \in AllPaths :
        /\ fs[path].kind = "file"
        /\ IsUnder(path, resolve(last.arg))
        /\ re_search_name(pattern, NameOf(path))}

\* the sum of the numbers Count(x), x ranging over the elements of a sequence
SumOver(Count(_), s) == FoldLeft(LAMBDA total, x : total + Count(x), 0, s)

\* 0.3 for every (file trigger, selected path) pair and 0.2 for every
\* (filename pattern, named regular file) pair of a language rule
LanguageScore(rules) ==
    LANG_FILE_INC * SumOver(LAMBDA f : Cardinality(Selected(f)), rules.files)
    + LANG_PATTERN_INC * SumOver(LAMBDA pat : Cardinality(Named(pat)), rules.patterns)

\* C21: when a scan returns, a language is in languages exactly when its score
\* is positive, and its confidence is min(1.0, score), the score being 0.3 for
\* every path a file trigger selects plus 0.2 for every regular file a filename
\* pattern names, a file counted once for each trigger and each pattern that
\* matches it.
C21_LanguageConfidence ==
    ScanReturned =>
        \A i \in DOMAIN LanguageRules :
            LET rules == LanguageRules[i]
                score == LanguageScore(rules)
                languages == last.result.analysis.languages
            IN  /\ rules.name \in NamesIn(languages) <=> score > 0
                /\ score > 0 => Entry(languages, rules.name).confidence = Min(CLAMP, score)

\* A scan of a tree with setup.py and app.py returned python above 0.5: the
\* two files are selected three times by triggers and named three times by
\* patterns, 1.5 before the clamp.
C21_Witness ==
    /\ ScanReturned
    /\ resolve(last.arg) = <<>>
    /\ {path \in AllPaths : fs[path].kind # "absent"} = {<<"setup.py">>, <<"app.py">>}
    /\ LanguageScore(RuleNamed("languages", "python"))
           = 3 * LANG_FILE_INC + 3 * LANG_PATTERN_INC
    /\ Entry(last.result.analysis.languages, "python").confidence = CLAMP
    /\ Entry(last.result.analysis.languages, "python").confidence > 5

\* A scan returned go at 0.5, below the clamp: one file, selected by one
\* trigger and named by one pattern.
C21_UnclampedWitness ==
    /\ ScanReturned
    /\ resolve(last.arg) = <<>>
    /\ fs[<<"pkg", "main.go">>].kind = "file"
    /\ LanguageScore(RuleNamed("languages", "go")) = LANG_FILE_INC + LANG_PATTERN_INC
    /\ Entry(last.result.analysis.languages, "go").confidence = 5

-----------------------------------------------------------------------------
(* C22 *)

\* the readable files of the scanned tree that _detect_test_tools reads for a
\* rule and in whose text a content pattern of the rule is found
TestContentFiles(rules) ==
    {path \in AllPaths :
        /\ fs[path].kind = "file"
        /\ fs[path].mode = "ok"
        /\ IsUnder(path, resolve(last.arg))
        /\ rules.has_content
        /\ \E ext \in Range(test_file_extensions(rules.language)) : EndsWith(NameOf(path), ext)
        /\ \E i \in DOMAIN rules.content_patterns :
               re_search_content(rules.content_patterns[i], fs[path].text)}

\* the number of (file trigger, selected entry) pairs of a rule
SelectedCount(rules) == SumOver(LAMBDA f : Cardinality(Selected(f)), rules.files)

C22_SingleFileWitness ==
    /\ ScanReturned
    /\ Selected("pytest.ini") = {<<"pytest.ini">>}
    /\ Entry(last.result.analysis.test_tools, "pytest").confidence = TEST_FILE_INC

-----------------------------------------------------------------------------
(* C23 *)

\* the number of matches of one file trigger that a detector keeps
CapOf(category) ==
    CASE category = "languages" -> LANG_FILE_CAP
      [] category = "frameworks" -> FW_FILE_CAP
      [] category = "build_tools" -> BUILD_FILE_CAP
      [] category = "containers" -> CONTAINER_FILE_CAP
      [] category = "infrastructure" -> INFRA_FILE_CAP
      [] category = "package_managers" -> PM_FILE_CAP

CappedCategories ==
    {"languages", "frameworks", "build_tools", "containers", "infrastructure",
     "package_managers"}

\* the entries that a file trigger selects and that the files of the returned
\* technology name
Recorded(technology, file_pattern) ==
    {path \in Selected(file_pattern) :
        relative_to(path, resolve(last.arg)) \in Range(technology.files)}

\* C23: when a scan returns, for every returned technology of languages,
\* frameworks, build tools, containers, infrastructure and package managers
\* and every file trigger of its rule, at most 5 (languages) or 3 (the other
\* categories) of the paths the trigger selects are in the technology's files.
C23_RecordedPerTriggerCapped ==
    ScanReturned =>
        \A category \in CappedCategories :
            \A t \in Range(last.result.analysis[category]) :
                \A f \in Range(RuleNamed(category, t.name).files) :
                    Cardinality(Recorded(t, f)) <= CapOf(category)

\* For the rules whose triggers are not followed by a content check or by
\* filename patterns, the bound holds.
C23_UncheckedTriggersCapped ==
    ScanReturned =>
        \A category \in CappedCategories \ {"languages"} :
            \A t \in Range(last.result.analysis[category]) :
                ~RuleNamed(category, t.name).has_content =>
                    \A f \in Range(RuleNamed(category, t.name).files) :
                        Cardinality(Recorded(t, f)) <= CapOf(category)

\* A scan of four .tf files returned terraform with three of them
C23_CappedWitness ==
    /\ ScanReturned
    /\ Cardinality(Selected("*.tf")) = 4
    /\ Len(Entry(last.result.analysis.infrastructure, "terraform").files) = INFRA_FILE_CAP

\* A scan of six .py files returned python with all six in files
C23_LanguageWitness ==
    /\ ScanReturned
    /\ Cardinality(Selected("*.py")) = 6
    /\ Cardinality(Recorded(Entry(last.result.analysis.languages, "python"), "*.py")) = 6

\* A scan of four manifests returned kubernetes with all four in files
C23_ContentWitness ==
    /\ ScanReturned
    /\ Cardinality(Selected("*.yaml")) = 4
    /\ Cardinality(Recorded(Entry(last.result.analysis.containers, "kubernetes"), "*.yaml")) = 4

-----------------------------------------------------------------------------
(* C24 *)

\* the names of the returned languages whose confidence no other exceeds
MaximalLanguages ==
    LET languages == last.result.analysis.languages
    IN  {languages[i].name : i \in {k \in DOMAIN languages :
                                       \A j \in DOMAIN languages :
                                           languages[j].confidence <= languages[k].confidence}}

\* the one of a set of language names that the catalog declares first
EarliestDeclared(names) ==
    CHOOSE name \in names :
        \A other \in names : CatalogIndex("languages", name) <= CatalogIndex("languages", other)

\* C24: when a scan returns two or more languages of maximal confidence,
\* primary_language is the one of them that the catalog declares first, and
\* it is the name of the first element of languages.
C24_TieGoesToEarliestDeclared ==
    (ScanReturned /\ Cardinality(MaximalLanguages) >= 2) =>
        /\ last.result.analysis.primary_language = EarliestDeclared(MaximalLanguages)
        /\ last.result.analysis.languages[1].name = EarliestDeclared(MaximalLanguages)

\* A scan returned python and go, both at 0.5, with python as primary_language
C24_Witness ==
    /\ ScanReturned
    /\ MaximalLanguages = {"python", "go"}
    /\ Entry(last.result.analysis.languages, "go").confidence = 5
    /\ last.result.analysis.primary_language = "python"
    /\ last.result.analysis.languages[2].name = "go"

-----------------------------------------------------------------------------
(* C25 *)

\* the readable regular files among a set of entries in whose text a content
\* pattern of the rule is found
ContentMatches(rules, paths) ==
    {path \in paths :
        /\ fs[path].kind = "file"
        /\ fs[path].mode = "ok"
        /\ \E i \in DOMAIN rules.content_patterns :
               re_search_content(rules.content_patterns[i], fs[path].text)}

\* T: the number of (file trigger, selected file) pairs whose text matches
TriggerContentCount(rules) ==
    SumOver(LAMBDA f : Cardinality(ContentMatches(rules, Selected(f))), rules.files)

\* F: the number of files of the language's extensions whose text matches
FallbackContentCount(rules) ==
    SumOver(LAMBDA ext : Cardinality(ContentMatches(rules, Selected("*" \o ext))),
            framework_file_extensions(rules.language))

\* C25: when a scan returns, a framework rule with content patterns is listed
\* at min(1.0, 0.8 x T) when T > 0, at min(1.0, 0.3 x F) when T = 0 and F > 0,
\* and not at all when both are 0.
C25_FrameworkContentConfidence ==
    ScanReturned =>
        \A i \in DOMAIN FrameworkRules :
            LET rules == FrameworkRules[i]
                T == TriggerContentCount(rules)
                F == FallbackContentCount(rules)
                frameworks == last.result.analysis.frameworks
            IN  rules.has_content =>
                    /\ rules.name \in NamesIn(frameworks) <=> (T > 0 \/ F > 0)
                    /\ T > 0 => Entry(frameworks, rules.name).confidence
                                    = Min(CLAMP, FW_CONTENT_INC * T)
                    /\ (T = 0 /\ F > 0) => Entry(frameworks, rules.name).confidence
                                               = Min(CLAMP, FW_FALLBACK_INC * F)

\* A scan returned flask at 0.8 for a tree with app.py and a.py, both
\* importing flask: the trigger file counted, the fallback added nothing.
C25_Witness ==
    /\ ScanReturned
    /\ TriggerContentCount(RuleNamed("frameworks", "flask")) = 1
    /\ FallbackContentCount(RuleNamed("frameworks", "flask")) = 2
    /\ Entry(last.result.analysis.frameworks, "flask").confidence = FW_CONTENT_INC
    /\ Entry(last.result.analysis.frameworks, "flask").files = <<"app.py">>

\* A scan returned flask at 0.9 for three files that import flask, none of
\* them named app.py
C25_FallbackWitness ==
    /\ ScanReturned
    /\ TriggerContentCount(RuleNamed("frameworks", "flask")) = 0
    /\ FallbackContentCount(RuleNamed("frameworks", "flask")) = 3
    /\ Entry(last.result.analysis.frameworks, "flask").confidence = 3 * FW_FALLBACK_INC

\* A scan returned flask at 1.0 for two files named app.py that import flask
C25_ClampedWitness ==
    /\ ScanReturned
    /\ TriggerContentCount(RuleNamed("frameworks", "flask")) = 2
    /\ Entry(last.result.analysis.frameworks, "flask").confidence = CLAMP

-----------------------------------------------------------------------------
(* C26 *)

\* the categories whose rules name a language
QualifiedCategories == {"frameworks", "test_tools", "build_tools"}

\* C26: when a scan returns a framework, a test tool or a build tool whose
\* rule names a language, that language is in the returned languages.
C26_RequiredLanguagePresent ==
    ScanReturned =>
        \A category \in QualifiedCategories :
            \A t \in Range(last.result.analysis[category]) :
                RuleNamed(category, t.name).language # ""
                    => RuleNamed(category, t.name).language
                           \in NamesIn(last.result.analysis.languages)

\* A scan of a tree that holds nothing but pytest.ini returned pytest, whose
\* rule names python, and no language
C26_Witness ==
    /\ ScanReturned
    /\ Present(fs) = {<<"pytest.ini">>}
    /\ NamesIn(last.result.analysis.test_tools) = {"pytest"}
    /\ RuleNamed("test_tools", "pytest").language = "python"
    /\ last.result.analysis.languages = <<>>

-----------------------------------------------------------------------------
(* C27 *)

\* C27: when a scan returns, every technology of every category has a
\* non-empty files list, and each of its paths is the path, relative to the
\* scanned directory, of an entry below it that a file trigger of the
\* technology's rule selects, or that is a regular file named by a filename
\* pattern of the rule, or a readable file in whose text a content pattern of
\* the rule is found.
C27_FilesAreEvidence ==
    ScanReturned =>
        \A category \in Range(Categories) :
            \A t \in Range(last.result.analysis[category]) :
                /\ t.files # <<>>
                /\ \A rel \in Range(t.files) :
                       \E path \in AllPaths :
                           /\ relative_to(path, resolve(last.arg)) = rel
                           /\ GivesEvidence(fs, resolve(last.arg),
                                            RuleNamed(category, t.name), path)

\* A scan of /repo/pkg returned go with the file main.go, named relative to
\* the scanned directory, while /repo holds a manifest that the scan did not see.
C27_Witness ==
    /\ ScanReturned
    /\ resolve(last.arg) = <<"pkg">>
    /\ fs[<<"Chart.yaml">>].kind = "file"
    /\ "go" \in NamesIn(last.result.analysis.languages)
    /\ Entry(last.result.analysis.languages, "go").files = <<"main.go">>
    /\ last.result.analysis.containers = <<>>

\* A scan returned kubernetes, helm and cloudformation for one manifest: helm
\* by its name, the other two by its text
C27_ContentWitness ==
    /\ ScanReturned
    /\ "kubernetes" \in NamesIn(last.result.analysis.containers)
    /\ Entry(last.result.analysis.containers, "kubernetes").files = <<"Chart.yaml">>
    /\ NamesIn(last.result.analysis.infrastructure) = {"helm", "cloudformation"}

-----------------------------------------------------------------------------
(* C28 *)

\* the last call was generate_pipeline
PipelineRequest == last.op = "generate_pipeline"

\* the steps of generate_pipeline that follow the scan, in the order of the code
LaterSteps == <<"apply_optimizations", "generate", "optimize">>

IsPrefix(s, t) == Len(s) <= Len(t) /\ SubSeq(t, 1, Len(s)) = s

\* C28: the steps of a generate_pipeline call are entered in the order scan
\* (its seven detectors), rules engine, generation, optimization, each only
\* after the one before it ran to its end.  No later step runs unless the scan
\* returned; an unsupported ci_type is rejected after the whole scan and the
\* rules engine, before any generation; when repo_path does not exist the
\* error is the path error, whatever ci_type is, and no step ran.
C28_StepsInOrder ==
    PipelineRequest =>
        LET steps == last.result.steps
            scanned == ScanOfRequest
        IN  /\ IsPrefix(steps, Categories \o LaterSteps)
            /\ scanned.outcome = "raised" =>
                   /\ steps = scanned.invoked
                   /\ Range(steps) \cap Range(LaterSteps) = {}
                   /\ last.result.outcome = "raised"
                   /\ last.result.error = scanned.error
            /\ ~exists(fs, resolve(last.arg.repo_path)) =>
                   /\ steps = <<>>
                   /\ last.result.message
                          = "Repository path does not exist: "
                                \o path_str(resolve(last.arg.repo_path))
            /\ (scanned.outcome = "returned" /\ UnsupportedRequest) =>
                   /\ steps = Categories \o <<"apply_optimizations">>
                   /\ last.result.outcome = "raised"
            /\ (scanned.outcome = "returned" /\ ~UnsupportedRequest) =>
                   /\ last.result.outcome = "returned"
                   /\ last.result.analysis = scanned.analysis
                   /\ steps = Categories \o (IF last.arg.optimize THEN LaterSteps
                                             ELSE Take(LaterSteps, 2))

\* generate_pipeline with an unsupported ci_type on a path that does not
\* exist raised the path error before any detector ran.
C28_Witness ==
    /\ UnsupportedRequest
    /\ ~exists(fs, resolve(last.arg.repo_path))
    /\ last.result.steps = <<>>
    /\ StartsWith(last.result.message, "Repository path does not exist")

\* generate_pipeline with an unsupported ci_type on a real repository was
\* rejected after the seven detectors and the rules engine.
C28_RejectedAfterScanWitness ==
    /\ UnsupportedRequest
    /\ Present(fs) # {}
    /\ last.result.steps = Categories \o <<"apply_optimizations">>
    /\ StartsWith(last.result.message, "Unsupported CI type")

\* generate_pipeline ran every step
C28_AllStepsWitness ==
    /\ PipelineRequest
    /\ last.result.outcome = "returned"
    /\ last.result.steps = Categories \o LaterSteps
    /\ last.result.analysis.primary_language = "python"

\* generate_pipeline stopped inside the scan: the containers detector raised
C28_ScanRaisedWitness ==
    /\ PipelineRequest
    /\ last.result.error = "IsADirectoryError"
    /\ last.result.steps = SubSeq(Categories, 1, 5)

-----------------------------------------------------------------------------
(* C29 *)

\* the place of the pipeline file of the request the caller keeps
KeptPlace == resolve(ref.arg.repo_path \o ci_file_paths[ref.arg.ci_type])

\* The caller keeps a pipeline that generate_pipeline returned, the pipeline
\* file of the repository holds its text, and the last call was
\* generate_pipeline with the same arguments: a pipeline was generated, saved
\* into the repository and generated again.
RoundTrip ==
    /\ last.op = "generate_pipeline"
    /\ ref.op = "generate_pipeline"
    /\ ref.result.outcome = "returned"
    /\ last.arg = ref.arg
    /\ ref.arg.ci_type \in SupportedTypes
    /\ is_file(fs, KeptPlace)
    /\ fs[KeptPlace].text = ref.result.pipeline_content

\* the analysis of the second call has the lists and the primary language of
\* the first, and the two pipeline texts are the same
SameAsBefore ==
    /\ last.result.outcome = "returned"
    /\ \A category \in Range(Categories) :
           last.result.analysis[category] = ref.result.analysis[category]
    /\ last.result.analysis.primary_language = ref.result.analysis.primary_language
    /\ last.result.pipeline_content = ref.result.pipeline_content

\* the technologies of an analysis whose files name the pipeline file
EvidenceFromPipelineFile(analysis) ==
    {t \in UNION {Range(analysis[category]) : category \in Range(Categories)} :
        relative_to(KeptPlace, resolve(ref.arg.repo_path)) \in Range(t.files)}

C29_OverwrittenWitness ==
    /\ RoundTrip
    /\ ref.arg.ci_type = "gitlab"
    /\ "kubernetes" \in NamesIn(ref.result.analysis.containers)
    /\ last.result.analysis.containers = <<>>

-----------------------------------------------------------------------------
(* The pipeline configuration in an audit *)

PipelineConfiguration == "CI/CD pipeline configuration"

\* the places of ci_files under a repository that stand in the tree
PresentCiFiles(tree, repo) ==
    {i \in DOMAIN ci_files : exists(tree, repo \o ci_files[i])}

\* the step is a call of audit_repository that returned
AuditReturned ==
    /\ last' # last
    /\ last'.op = "audit"
    /\ last'.result.outcome = "returned"

\* the last call before the step was a save_pipeline that wrote its file into
\* the repository the step audits
SavedInto(repo) ==
    /\ last.op = "save"
    /\ last.result.outcome = "returned"
    /\ last.arg.output_path # NoPath
    /\ resolve(last.arg.output_path) = repo

C30_MissingWitness ==
    /\ last.op = "audit"
    /\ last.result.outcome = "returned"
    /\ last.arg = <<>>
    /\ is_file(fs, <<"app.py">>)
    /\ PresentCiFiles(fs, <<>>) = {}
    /\ PipelineConfiguration \in Range(last.result.report.missing_components)

\* an audit of the subdirectory pkg after the pipeline was saved into the
\* root: the pipeline of the root is not one of pkg
C30_OtherRepositoryWitness ==
    /\ last.op = "audit"
    /\ last.result.outcome = "returned"
    /\ last.arg = <<"pkg">>
    /\ ref.op = "generate_pipeline"
    /\ is_file(fs, <<".gitlab-ci.yml">>)
    /\ PipelineConfiguration \in Range(last.result.report.missing_components)

\* a Jenkinsfile alone is a pipeline configuration
C30_JenkinsfileWitness ==
    /\ last.op = "audit"
    /\ last.result.outcome = "returned"
    /\ last.arg = <<>>
    /\ PresentCiFiles(fs, <<>>) = {4}
    /\ PipelineConfiguration \notin Range(last.result.report.missing_components)

====
